---- MODULE Spec2Model ----
(***************************************************************************)
(* x402 payment handshake of MegalithLabs/x402: the payee middleware       *)
(* (x402Express, x402Hono, x402Next over buildPaymentRequirements and      *)
(* settlePayment) and the payer wrapper (x402Fetch over createPayment).    *)
(*                                                                         *)
(* PayeeSpec: one Node process serving inbound requests one after another; *)
(* the module-level caches live for the whole process.  A step is the code *)
(* between two awaits; RPC reads and the facilitator call are awaited and  *)
(* their outcome is chosen by the environment.                             *)
(* PayerSpec: one process issuing fetchWithPayment calls one after         *)
(* another through signers on different networks; the wrapped fetch (the   *)
(* server), the RPC node and the signer are the environment.               *)
(***************************************************************************)
EXTENDS Integers, Sequences, FiniteSets, TLC

\* JS undefined, for a missing string-valued field.
Undefined == "undefined"

\* ------------------------------------------------------------------------
\* Environment: networks, tokens, chain state
\* ------------------------------------------------------------------------

\* The networks the SDK knows (a subset of the four of the table).
NETWORKS == {"base", "bsc"}

\* Token contract addresses.
Assets == {"USDC", "TKN"}

\* decimals() as stored on chain: the same address may be a different
\* contract on another network.
ChainDecimals(network, asset) ==
    CASE network = "base" /\ asset = "USDC" -> 6
      [] network = "bsc"  /\ asset = "USDC" -> 8
      [] network = "base" /\ asset = "TKN"  -> 2
      [] OTHER                              -> 3

\* name() and version() as stored on chain.
ChainName(network, asset) == IF asset = "USDC" THEN "USD Coin" ELSE "Token"

ChainVersion(network, asset) == IF asset = "USDC" THEN "2" ELSE "1"

RECURSIVE Pow10(_)
Pow10(n) == IF n = 0 THEN 1 ELSE 10 * Pow10(n - 1)

\* ------------------------------------------------------------------------
\* Decimal amounts and ethers.parseUnits
\* ------------------------------------------------------------------------

\* A decimal string "w.f1f2..." is its whole part and its fractional digits;
\* defined = FALSE is a missing amount.
Amt(w, f) == [defined |-> TRUE, whole |-> w, frac |-> f]

NoAmount == [defined |-> FALSE, whole |-> 0, frac |-> <<>>]

RECURSIVE DigitsValue(_)
DigitsValue(ds) ==
    IF ds = <<>> THEN 0
    ELSE 10 * DigitsValue(SubSeq(ds, 1, Len(ds) - 1)) + ds[Len(ds)]

\* The fractional digits padded with zeros to at least d digits.
PadFrac(f, d) == [i \in 1..(IF Len(f) > d THEN Len(f) ELSE d) |->
                     IF i <= Len(f) THEN f[i] ELSE 0]

parseUnitsAssumingSix(a, d) ==
    LET p == PadFrac(a.frac, 6) IN
    IF \E i \in 7..Len(p) : p[i] # 0
    THEN [ok |-> FALSE, value |-> 0]
    ELSE [ok |-> TRUE,
          value |-> a.whole * Pow10(6) + DigitsValue(SubSeq(p, 1, 6))]

\* ethers.parseUnits(amount, d): digits beyond the d-th must all be zero
\* ("too many decimals for format" otherwise); the value is exact.
parseUnits(a, d) ==
    LET p == PadFrac(a.frac, d) IN
    IF \E i \in (d + 1)..Len(p) : p[i] # 0
    THEN [ok |-> FALSE, value |-> 0]
    ELSE [ok |-> TRUE,
          value |-> a.whole * Pow10(d) + DigitsValue(SubSeq(p, 1, d))]

\* ------------------------------------------------------------------------
\* Route table
\* ------------------------------------------------------------------------

PayTo == "0xPayee"

Cfg(a, asset, network) ==
    [amount |-> a, asset |-> asset, network |-> network, payTo |-> PayTo]

CfgPremium   == Cfg(Amt(0, <<0, 1>>), "USDC", "base")
CfgApi       == Cfg(Amt(1, <<0, 0>>), "USDC", "base")
CfgBscCheap  == Cfg(Amt(0, <<0, 1>>), "TKN", "bsc")
CfgBscApi    == Cfg(Amt(1, <<0, 0>>), "TKN", "bsc")
CfgNoAmount  == Cfg(NoAmount, "USDC", "base")
CfgNoAsset   == Cfg(Amt(0, <<0, 1>>), Undefined, "base")
CfgNoNetwork == Cfg(Amt(0, <<0, 1>>), "USDC", Undefined)
CfgOtherNet  == Cfg(Amt(0, <<0, 1>>), "USDC", "solana")
CfgTooFine   == Cfg(Amt(0, <<0, 0, 1>>), "TKN", "base")

Route(p, c) == [pattern |-> p, config |-> c]

\* The routes objects an application may pass, in declaration order.  A
\* pattern is the list of its "/"-separated segments; "*" and ":id" are the
\* wildcard and the parameter segment.
RouteTables ==
    { << Route(<<"api", "premium">>, CfgPremium),
         Route(<<"api", "*">>, CfgApi),
         Route(<<"bad", ":id">>, CfgNoAmount) >>,
      << Route(<<"api", "*">>, CfgBscApi),
         Route(<<"api", "premium">>, CfgBscCheap),
         Route(<<"bad", ":id">>, CfgNoAsset) >>,
      << Route(<<"api", ":id">>, CfgTooFine),
         Route(<<"*">>, CfgOtherNet),
         Route(<<"bad", "x">>, CfgNoNetwork) >> }

\* Request paths, as segment lists ("/api/premium", ...).
Paths == { <<"api", "premium">>, <<"api", "data", "x">>, <<"bad", "x">>,
           <<"free">> }

\* The configs an application may wrap a handler with through x402Next.
NextConfigs == { CfgPremium, CfgBscApi, CfgNoAmount, CfgNoAsset, CfgNoNetwork,
                 CfgOtherNet, CfgTooFine }

\* route.regex.test(path) for the regex compileRoutes builds: "*" became
\* ".*" (any characters, slashes included), ":id" became "[^/]+" (one
\* non-empty segment), anything else is matched literally.
RECURSIVE RegexTest(_, _)
RegexTest(pattern, path) ==
    IF pattern = <<>> THEN path = <<>>
    ELSE IF Head(pattern) = "*"
    THEN \E k \in 1..Len(path) :
            RegexTest(Tail(pattern), SubSeq(path, k + 1, Len(path)))
    ELSE IF Head(pattern) = ":id"
    THEN path # <<>> /\ Head(path) # "" /\ RegexTest(Tail(pattern), Tail(path))
    ELSE path # <<>> /\ Head(path) = Head(pattern)
         /\ RegexTest(Tail(pattern), Tail(path))

\* findMatchingRoute: the index of the first route of the compiled table
\* whose regex matches, 0 for null.
RECURSIVE findFrom(_, _, _)
findFrom(path, routePatterns, i) ==
    IF i > Len(routePatterns) THEN 0
    ELSE IF RegexTest(routePatterns[i].pattern, path) THEN i
    ELSE findFrom(path, routePatterns, i + 1)

findLastMatchingRoute(path, routePatterns) ==
    LET hits == { i \in DOMAIN routePatterns :
                    RegexTest(routePatterns[i].pattern, path) }
    IN  IF hits = {} THEN 0
        ELSE CHOOSE i \in hits : \A j \in hits : j <= i

findMatchingRoute(path, routePatterns) == findFrom(path, routePatterns, 1)

\* ------------------------------------------------------------------------
\* Payee state
\* ------------------------------------------------------------------------

VARIABLES
    adapter,             \* the framework adapter the application mounted
    routes,              \* the routes object given to x402Express / x402Hono
    wrapped,             \* the config given to x402Next
    decimalsCache,       \* payee decimalsCache: "network:asset" -> decimals
    tokenMetadataCache,  \* payee tokenMetadataCache: key -> {name, version}
    req,                 \* the inbound request being served
    pc,                  \* where its handler is suspended
    errAnn,              \* error.message the catch block will annotate
    decRead,             \* the decimals() read of the current call
    metaRead,            \* the name()/version() reads of the current call
    orphanMeta,          \* metadata reads whose awaiting call already ended
    res,                 \* the response the adapter wrote
    obs,                 \* what the request did so far (counters)
    settle               \* the settlePayment call of the request

payeeVars == << adapter, routes, wrapped, decimalsCache, tokenMetadataCache,
                req, pc, errAnn, decRead, metaRead, orphanMeta, res, obs,
                settle >>

VARIABLES
    payerDecimalsCache,  \* payer.js decimalsCache: token address -> decimals
    call,                \* the fetchWithPayment call in progress
    ppc,                 \* where it is suspended
    first,               \* the response to the original attempt
    used,                \* << d >> once the ceiling check converted with d
    pobs,                \* what the call did so far (counters)
    perr,                \* the error the call threw
    pret,                \* the status of the response the call returned
    stargateNonce,       \* on chain: getNonce(user, token) of the proxy
    probeLog,            \* (network, token) pairs probed once / again
    build,               \* the locals of the createPayment call
    signed,              \* the typed data handed to signer.signTypedData
    envelope             \* the x402 payload createPayment returned

payerVars == << payerDecimalsCache, call, ppc, first, used, pobs, perr, pret,
                stargateNonce, probeLog, build, signed, envelope >>

VARIABLES
    clk,                 \* milliseconds the wall clock shows past ClockBase
    window               \* the validity window of the last authorization

clientVars == << clk, window >>

VARIABLES
    handshake,           \* a requirement the payee issued and its payment
    xclient,             \* the X402Client.pay call in progress
    script,              \* the run of the signer script
    conv                 \* an amount on its way payee config -> payer number

sdkVars == << handshake, xclient, script, conv >>

vars == << payeeVars, payerVars, clientVars, sdkVars >>

Adapters == {"express", "hono", "appRouter", "pagesRouter"}

\* The X-PAYMENT header of a request: absent, a well-formed envelope (with
\* or without a network field), or one of the three malformed kinds.
Headers ==
    { [kind |-> "none", network |-> Undefined] }
    \cup { [kind |-> "valid", network |-> n] : n \in {"base", Undefined} }
    \cup { [kind |-> k, network |-> Undefined] :
             k \in {"badBase64", "badJson", "missingFields"} }

\* parsePaymentHeader: {payment} for a well-formed header, {error} for
\* malformed base64, malformed JSON or an envelope missing required fields.
parsePaymentHeader(h) ==
    IF h.kind = "valid"
    THEN [payment |-> [x402Version |-> 1, network |-> h.network], error |-> ""]
    ELSE [payment |-> [x402Version |-> 0, network |-> Undefined],
          error |-> "Invalid payment header: " \o h.kind]

NoRead == [st |-> "none", val |-> 0, msg |-> ""]

NoMeta == [name |-> "", version |-> ""]

\* reads: << nameOk, versionOk >> once name() and version() have settled,
\* << >> when no read was made.
NoMetaRead == [st |-> "none", val |-> NoMeta, reads |-> << >>]

NoBody == [shape |-> "none", x402Version |-> 0, accepts |-> <<>>, error |-> ""]

NoRes == [status |-> 0, body |-> NoBody]

NoObs == [responses |-> 0, handlerCalls |-> 0, settleCalls |-> 0,
          rpcReads |-> 0, cacheReads |-> 0, cacheWrites |-> 0,
          headersSet |-> 0]

NoPayload == [x402Version |-> 0,
              paymentPayload |-> [x402Version |-> 0, network |-> Undefined],
              paymentRequirements |->
                  [scheme |-> "", network |-> Undefined,
                   maxAmountRequired |-> 0, asset |-> Undefined]]

NoError == [name |-> "", message |-> ""]

\* The errors settlePayment throws on a timeout and on a failed connection.
TimeoutError ==
    [name |-> "Error", message |-> "Facilitator request timed out"]

TransportError == [name |-> "TypeError", message |-> "fetch failed"]

NoSettle == [payload |-> NoPayload, timer |-> "unarmed", outcome |-> "none",
             success |-> FALSE, reason |-> "", inflight |-> FALSE,
             error |-> NoError, onchain |-> FALSE]

NoReq == [path |-> <<>>,
          header |-> [kind |-> "none", network |-> Undefined],
          matched |-> 0, config |-> CfgPremium]

cacheKey(c) == << c.network, c.asset >>

\* { error: message }
ErrBody(msg) ==
    [shape |-> "error", x402Version |-> 0, accepts |-> <<>>, error |-> msg]

\* The requirement object and the x402 response built from config c.
requirement(c, maxAmountRequired, tokenMetadata, resource) ==
    [scheme |-> "exact", network |-> c.network,
     maxAmountRequired |-> maxAmountRequired, resource |-> resource,
     payTo |-> c.payTo, asset |-> c.asset,
     extra |-> [name |-> tokenMetadata.name, version |-> tokenMetadata.version]]

x402Response(c, maxAmountRequired, tokenMetadata, resource, err) ==
    [shape |-> "requirements", x402Version |-> 1,
     accepts |->
        << requirement(c, maxAmountRequired, tokenMetadata, resource) >>,
     error |-> err]

PayeeInit ==
    /\ adapter \in Adapters
    /\ IF adapter \in {"express", "hono"}
       THEN routes \in RouteTables \cup { << >> } /\ wrapped = CfgPremium
       ELSE routes = << >> /\ wrapped \in NextConfigs
    /\ decimalsCache = << >>
    /\ tokenMetadataCache = << >>
    /\ req = NoReq
    /\ pc = "idle"
    /\ errAnn = ""
    /\ decRead = NoRead
    /\ metaRead = NoMetaRead
    /\ orphanMeta = {}
    /\ res = NoRes
    /\ obs = NoObs
    /\ settle = NoSettle

\* ------------------------------------------------------------------------
\* Payee: the code run between two awaits
\* ------------------------------------------------------------------------

\* res.status(status).json(body) / c.json(body, status) / Response.json:
\* the adapter writes its response and the request ends.  A metadata read
\* nobody awaits any more keeps running.
Respond(status, body, o, s) ==
    /\ pc' = "done"
    /\ res' = [status |-> status, body |-> body]
    /\ obs' = [o EXCEPT !.responses = @ + 1]
    /\ errAnn' = ""
    /\ decRead' = NoRead
    /\ metaRead' = NoMetaRead
    /\ orphanMeta' = IF metaRead.st = "pending"
                     THEN orphanMeta \cup {cacheKey(req.config)}
                     ELSE orphanMeta
    /\ settle' = s

decimalsLookupUncached(dc, c) ==
    IF c.network \notin NETWORKS
    THEN [st |-> "fail", val |-> 0, msg |-> "Unknown network: " \o c.network]
    ELSE IF c.asset = Undefined
    THEN [st |-> "fail", val |-> 0, msg |-> "invalid value for Contract target"]
    ELSE [st |-> "pending", val |-> 0, msg |-> ""]

\* getTokenDecimals up to its await, dc being decimalsCache as it is then:
\* cache hit, unknown network, or the decimals() read is issued.
decimalsLookup(dc, c) ==
    IF cacheKey(c) \in DOMAIN dc
    THEN [st |-> "ok", val |-> dc[cacheKey(c)], msg |-> ""]
    ELSE IF c.network \notin NETWORKS
    THEN [st |-> "fail", val |-> 0, msg |-> "Unknown network: " \o c.network]
    ELSE IF c.asset = Undefined
    THEN [st |-> "fail", val |-> 0, msg |-> "invalid value for Contract target"]
    ELSE [st |-> "pending", val |-> 0, msg |-> ""]

\* getTokenMetadata up to its await.
metadataLookup(c) ==
    IF cacheKey(c) \in DOMAIN tokenMetadataCache
    THEN [st |-> "ok", val |-> tokenMetadataCache[cacheKey(c)],
          reads |-> << >>]
    ELSE IF c.network \notin NETWORKS
    THEN [st |-> "fail", val |-> NoMeta, reads |-> << >>]
    ELSE [st |-> "pending", val |-> NoMeta, reads |-> << >>]

configErrorNetworkUnchecked(c) ==
    IF ~c.amount.defined THEN "amount is required in route config"
    ELSE IF c.asset = Undefined
    THEN "asset (token address) is required in route config"
    ELSE ""

\* The message of the error buildPaymentRequirements throws for a config
\* lacking a required field, "" for a config that has them all.
configError(c) ==
    IF ~c.amount.defined THEN "amount is required in route config"
    ELSE IF c.asset = Undefined
    THEN "asset (token address) is required in route config"
    ELSE IF c.network = Undefined THEN "network is required in route config"
    ELSE ""

\* buildPaymentRequirements(payTo, c, path) inside the caller's try block,
\* up to the await of Promise.all; err is the annotation the caller adds.
BuildStart(c, err, o, s, dc) ==
    IF configError(c) # ""
    THEN Respond(500, ErrBody(configError(c)), o, s)
    ELSE LET dec  == decimalsLookup(dc, c)
             meta == metadataLookup(c)
             n    == (IF dec.st = "pending" THEN 1 ELSE 0)
                     + (IF meta.st = "pending" THEN 2 ELSE 0)
         IN  /\ pc' = "build"
             /\ errAnn' = err
             /\ decRead' = dec
             /\ metaRead' = meta
             /\ obs' = [o EXCEPT !.cacheReads = @ + 2, !.rpcReads = @ + n]
             /\ res' = NoRes
             /\ orphanMeta' = orphanMeta
             /\ settle' = s

\* settlePayment from the value of toAtomicUnits' decimals on: convert the
\* amount, build the payload, arm the timer and POST it to /settle.
SettleContinue(c, payment, d, o, dc) ==
    IF ~c.amount.defined
    THEN BuildStart(c, "Cannot read properties of undefined", o, NoSettle, dc)
    ELSE IF ~parseUnits(c.amount, d).ok
    THEN BuildStart(c, "too many decimals for format", o, NoSettle, dc)
    ELSE /\ pc' = "settling"
         /\ settle' =
              [payload |->
                 [x402Version |-> 1,
                  paymentPayload |-> payment,
                  paymentRequirements |->
                     [scheme |-> "exact",
                      network |-> IF payment.network # Undefined
                                  THEN payment.network ELSE c.network,
                      maxAmountRequired |-> parseUnits(c.amount, d).value,
                      asset |-> c.asset]],
               timer |-> "armed", outcome |-> "pending", success |-> FALSE,
               reason |-> "", inflight |-> TRUE, error |-> NoError,
               onchain |-> FALSE]
         /\ obs' = [o EXCEPT !.settleCalls = @ + 1]
         /\ errAnn' = ""
         /\ decRead' = NoRead
         /\ metaRead' = NoMetaRead
         /\ orphanMeta' = orphanMeta
         /\ res' = NoRes

\* settlePayment(payment, c, facilitator) up to its first await.
SettleStart(c, payment, o) ==
    LET dec == decimalsLookup(decimalsCache, c)
        o1  == [o EXCEPT !.cacheReads = @ + 1]
    IN  IF dec.st = "ok"
        THEN SettleContinue(c, payment, dec.val, o1, decimalsCache)
        ELSE IF dec.st = "fail"
        THEN BuildStart(c, dec.msg, o1, NoSettle, decimalsCache)
        ELSE /\ pc' = "settle_dec"
             /\ decRead' = dec
             /\ obs' = [o1 EXCEPT !.rpcReads = @ + 1]
             /\ errAnn' = ""
             /\ metaRead' = NoMetaRead
             /\ orphanMeta' = orphanMeta
             /\ res' = NoRes
             /\ settle' = NoSettle

\* No route matches: return next(), and nothing else.
PassThroughFallThrough ==
    Respond(500, ErrBody("Cannot read properties of null"),
            [NoObs EXCEPT !.handlerCalls = 1], NoSettle)

PassThrough ==
    /\ pc' = "done"
    /\ obs' = [NoObs EXCEPT !.handlerCalls = 1]
    /\ res' = NoRes
    /\ settle' = NoSettle
    /\ errAnn' = ""
    /\ decRead' = NoRead
    /\ metaRead' = NoMetaRead
    /\ orphanMeta' = orphanMeta

\* The header did not parse: 400 with the parse error.
RejectHeaderAs402(c, parseError) ==
    BuildStart(c, parseError, NoObs, NoSettle, decimalsCache)

RejectHeader(c, parseError) ==
    Respond(400, ErrBody(parseError), NoObs, NoSettle)

\* ------------------------------------------------------------------------
\* Payee actions
\* ------------------------------------------------------------------------

\* A request arrives at the middleware (express, hono) or at the wrapped
\* handler (x402Next); the code runs to its first await or to its end.
Arrive(path, header) ==
    /\ UNCHANGED << payerVars, clientVars, sdkVars >>
    /\ pc \in {"idle", "done"}
    /\ LET routed  == adapter \in {"express", "hono"}
           matched == IF routed THEN findMatchingRoute(path, routes) ELSE 0
           c       == IF ~routed THEN wrapped
                      ELSE IF matched = 0 THEN NoReq.config
                      ELSE routes[matched].config
           parsed  == parsePaymentHeader(header)
       IN  /\ req' = [path |-> path, header |-> header,
                      matched |-> matched, config |-> c]
           /\ IF routed /\ matched = 0
              THEN PassThrough
              ELSE IF header.kind = "none"
              THEN BuildStart(c, "", NoObs, NoSettle, decimalsCache)
              ELSE IF parsed.error # ""
              THEN RejectHeader(c, parsed.error)
              ELSE SettleStart(c, parsed.payment, NoObs)
    /\ UNCHANGED << adapter, routes, wrapped, decimalsCache,
                    tokenMetadataCache >>

BuildDecimalsReturnCachingDefault(ok) ==
    /\ UNCHANGED << payerVars, clientVars, sdkVars >>
    /\ pc = "build"
    /\ decRead.st = "pending"
    /\ decimalsCache' =
          (cacheKey(req.config) :>
              IF ok THEN ChainDecimals(req.config.network, req.config.asset)
              ELSE 18)
          @@ decimalsCache
    /\ decRead' =
          IF ok
          THEN [st |-> "ok", msg |-> "",
                val |-> ChainDecimals(req.config.network, req.config.asset)]
          ELSE [st |-> "fail", val |-> 0,
                msg |-> "Failed to fetch decimals for token"]
    /\ obs' = [obs EXCEPT !.cacheWrites = @ + 1]
    /\ UNCHANGED << adapter, routes, wrapped, tokenMetadataCache, req, pc,
                    errAnn, metaRead,
                    orphanMeta, res, settle >>

\* token.decimals() answers a read issued by buildPaymentRequirements.
BuildDecimalsReturn(ok) ==
    /\ UNCHANGED << payerVars, clientVars, sdkVars >>
    /\ pc = "build"
    /\ decRead.st = "pending"
    /\ IF ok
       THEN /\ decimalsCache' =
                 (cacheKey(req.config) :>
                     ChainDecimals(req.config.network, req.config.asset))
                 @@ decimalsCache
            /\ decRead' = [st |-> "ok", msg |-> "",
                 val |-> ChainDecimals(req.config.network, req.config.asset)]
            /\ obs' = [obs EXCEPT !.cacheWrites = @ + 1]
       ELSE /\ decRead' = [st |-> "fail", val |-> 0,
                           msg |-> "Failed to fetch decimals for token"]
            /\ UNCHANGED << decimalsCache, obs >>
    /\ UNCHANGED << adapter, routes, wrapped, tokenMetadataCache, req, pc,
                    errAnn, metaRead,
                    orphanMeta, res, settle >>

metadataOfAllOrNothing(c, nameOk, versionOk) ==
    IF nameOk /\ versionOk
    THEN [name |-> ChainName(c.network, c.asset),
          version |-> ChainVersion(c.network, c.asset)]
    ELSE [name |-> "Unknown Token", version |-> "1"]

\* What getTokenMetadata stores for the outcomes of name() and version().
metadataOf(c, nameOk, versionOk) ==
    [name |-> IF nameOk THEN ChainName(c.network, c.asset)
              ELSE "Unknown Token",
     version |-> IF versionOk THEN ChainVersion(c.network, c.asset) ELSE "1"]

\* token.name() and token.version() have both settled.
BuildMetadataReturn(nameOk, versionOk) ==
    /\ UNCHANGED << payerVars, clientVars, sdkVars >>
    /\ pc = "build"
    /\ metaRead.st = "pending"
    /\ tokenMetadataCache' =
          (cacheKey(req.config) :> metadataOf(req.config, nameOk, versionOk))
          @@ tokenMetadataCache
    /\ metaRead' = [st |-> "ok",
                    val |-> metadataOf(req.config, nameOk, versionOk),
                    reads |-> << nameOk, versionOk >>]
    /\ obs' = [obs EXCEPT !.cacheWrites = @ + 1]
    /\ UNCHANGED << adapter, routes, wrapped, decimalsCache, req, pc, errAnn,
                    decRead,
                    orphanMeta, res, settle >>

BuildFinishDefaulting ==
    /\ UNCHANGED << payerVars, clientVars, sdkVars >>
    /\ pc = "build"
    /\ decRead.st # "pending"
    /\ metaRead.st # "pending"
    /\ LET c == req.config
           d == IF decRead.st = "ok" THEN decRead.val ELSE 6
       IN  Respond(402,
                   x402Response(c, parseUnits(c.amount, d).value,
                                metaRead.val, req.path, errAnn),
                   obs, settle)
    /\ UNCHANGED << adapter, routes, wrapped, decimalsCache,
                    tokenMetadataCache, req >>

\* Promise.all settles: the requirements are built and sent with 402, or
\* the first rejection is caught and answered with 500.
BuildFinish ==
    /\ UNCHANGED << payerVars, clientVars, sdkVars >>
    /\ pc = "build"
    /\ LET c == req.config IN
       \/ /\ decRead.st = "fail"
          /\ Respond(500, ErrBody(decRead.msg), obs, settle)
       \/ /\ decRead.st = "ok"
          /\ ~parseUnits(c.amount, decRead.val).ok
          /\ Respond(500, ErrBody("too many decimals for format"), obs, settle)
       \/ /\ decRead.st = "ok"
          /\ parseUnits(c.amount, decRead.val).ok
          /\ metaRead.st = "fail"
          /\ Respond(500, ErrBody("Unknown network"), obs, settle)
       \/ /\ decRead.st = "ok"
          /\ parseUnits(c.amount, decRead.val).ok
          /\ metaRead.st = "ok"
          /\ Respond(402,
                     x402Response(c, parseUnits(c.amount, decRead.val).value,
                                  metaRead.val, req.path, errAnn),
                     obs, settle)
    /\ UNCHANGED << adapter, routes, wrapped, decimalsCache,
                    tokenMetadataCache, req >>

\* token.decimals() answers the read issued by settlePayment.
SettleDecimalsReturn(ok) ==
    /\ UNCHANGED << payerVars, clientVars, sdkVars >>
    /\ pc = "settle_dec"
    /\ decRead.st = "pending"
    /\ LET c == req.config
           d == ChainDecimals(c.network, c.asset)
       IN  IF ok
           THEN /\ decimalsCache' = (cacheKey(c) :> d) @@ decimalsCache
                /\ SettleContinue(c, parsePaymentHeader(req.header).payment, d,
                                  [obs EXCEPT !.cacheWrites = @ + 1],
                                  (cacheKey(c) :> d) @@ decimalsCache)
           ELSE /\ UNCHANGED decimalsCache
                /\ BuildStart(c, "Failed to fetch decimals for token", obs,
                              NoSettle, decimalsCache)
    /\ UNCHANGED << adapter, routes, wrapped, tokenMetadataCache, req >>

\* The catch block of the adapter after settlePayment or the handler threw:
\* rebuild the requirements and annotate them with error.message.
CatchAndRebuild(msg, s) ==
    /\ UNCHANGED << payerVars, clientVars, sdkVars >>
    /\ BuildStart(req.config, msg, obs, s, decimalsCache)
    /\ UNCHANGED << adapter, routes, wrapped, decimalsCache,
                    tokenMetadataCache, req >>

\* The facilitator, a process of its own, has received the POST and
\* executes the authorization on-chain; its answer is still to come.
FacilitatorSettles ==
    /\ UNCHANGED << payerVars, clientVars, sdkVars >>
    /\ pc = "settling"
    /\ settle.inflight
    /\ ~settle.onchain
    /\ settle' = [settle EXCEPT !.onchain = TRUE]
    /\ UNCHANGED << adapter, routes, wrapped, decimalsCache,
                    tokenMetadataCache, req, pc, errAnn,
                    decRead, metaRead, orphanMeta, res, obs >>

\* The facilitator answers /settle with 2xx and a JSON Settlement Result:
\* settlePayment returns it, the X-PAYMENT-RESPONSE header is set and the
\* handler (next) is invoked.  The result says success exactly when the
\* facilitator executed the authorization.
SettleOk(success) ==
    /\ UNCHANGED << payerVars, clientVars, sdkVars >>
    /\ pc = "settling"
    /\ success = settle.onchain
    /\ settle' = [settle EXCEPT !.timer = "cleared", !.outcome = "ok",
                                !.success = success, !.inflight = FALSE]
    /\ pc' = IF adapter = "express" THEN "done" ELSE "handler"
    /\ obs' = [obs EXCEPT
                 !.handlerCalls = @ + 1,
                 !.headersSet = IF adapter = "appRouter" THEN @ ELSE @ + 1]
    /\ UNCHANGED << adapter, routes, wrapped, decimalsCache,
                    tokenMetadataCache, req, errAnn,
                    decRead, metaRead, orphanMeta, res >>

\* Reasons a facilitator gives in the error field of a rejection; Undefined
\* is a rejection body without an error field.
RejectReasons ==
    {"nonce already used", "Facilitator request timed out", Undefined}

\* error.error || `Settlement failed: ${response.status}`
rejectionMessage(reason) ==
    IF reason # Undefined THEN reason ELSE "Settlement failed: 400"

SettleRejectedTimerLeft(reason) ==
    /\ pc = "settling"
    /\ ~settle.onchain
    /\ CatchAndRebuild(rejectionMessage(reason),
                       [settle EXCEPT !.outcome = "rejected",
                                      !.reason = reason,
                                      !.inflight = FALSE,
                                      !.error =
                                         [name |-> "Error",
                                          message |->
                                             rejectionMessage(reason)]])

\* The facilitator answers /settle with a non-2xx status and a JSON body;
\* a facilitator that executed the authorization does not answer so.
SettleRejected(reason) ==
    /\ pc = "settling"
    /\ ~settle.onchain
    /\ CatchAndRebuild(rejectionMessage(reason),
                       [settle EXCEPT !.timer = "cleared",
                                      !.outcome = "rejected",
                                      !.reason = reason,
                                      !.inflight = FALSE,
                                      !.error =
                                         [name |-> "Error",
                                          message |->
                                             rejectionMessage(reason)]])

\* The facilitator answers with a body that is not JSON: response.json()
\* throws.
SettleBadBody ==
    /\ pc = "settling"
    /\ CatchAndRebuild("Unexpected token in JSON",
                       [settle EXCEPT !.timer = "cleared",
                                      !.outcome = "badBody",
                                      !.inflight = FALSE,
                                      !.error =
                                         [name |-> "SyntaxError",
                                          message |->
                                             "Unexpected token in JSON"]])

SettleTransportFailOpen ==
    /\ UNCHANGED << payerVars, clientVars, sdkVars >>
    /\ pc = "settling"
    /\ settle' = [settle EXCEPT !.timer = "cleared", !.outcome = "transport",
                                !.inflight = FALSE, !.error = TransportError]
    /\ pc' = IF adapter = "express" THEN "done" ELSE "handler"
    /\ obs' = [obs EXCEPT !.handlerCalls = @ + 1]
    /\ UNCHANGED << adapter, routes, wrapped, decimalsCache,
                    tokenMetadataCache, req, errAnn,
                    decRead, metaRead, orphanMeta, res >>

\* fetch rejects: connection-level failure.
SettleTransportFail ==
    /\ pc = "settling"
    /\ CatchAndRebuild(TransportError.message,
                       [settle EXCEPT !.timer = "cleared",
                                      !.outcome = "transport",
                                      !.inflight = FALSE,
                                      !.error = TransportError])

SettleTimeoutNoAbort ==
    /\ pc = "settling"
    /\ settle.timer = "armed"
    /\ CatchAndRebuild(TimeoutError.message,
                       [settle EXCEPT !.timer = "fired",
                                      !.outcome = "timeout",
                                      !.error = TimeoutError])

SettleTimeoutNeverArmed ==
    /\ pc = "settling"
    /\ settle.timer = "unarmed"
    /\ CatchAndRebuild(TimeoutError.message,
                       [settle EXCEPT !.timer = "fired",
                                      !.outcome = "timeout",
                                      !.inflight = FALSE,
                                      !.error = TimeoutError])

\* The timer fires before an answer: controller.abort() cancels the request
\* in flight, fetch rejects with an AbortError, settlePayment throws the
\* timed-out error.
SettleTimeout ==
    /\ pc = "settling"
    /\ settle.timer = "armed"
    /\ CatchAndRebuild(TimeoutError.message,
                       [settle EXCEPT !.timer = "fired",
                                      !.outcome = "timeout",
                                      !.inflight = FALSE,
                                      !.error = TimeoutError])

\* The awaited handler (hono next, x402Next handler) returns.
HandlerReturn ==
    /\ UNCHANGED << payerVars, clientVars, sdkVars >>
    /\ pc = "handler"
    /\ pc' = "done"
    /\ obs' = [obs EXCEPT
                 !.headersSet = IF adapter = "appRouter" THEN @ + 1 ELSE @]
    /\ UNCHANGED << adapter, routes, wrapped, decimalsCache,
                    tokenMetadataCache, req, errAnn,
                    decRead, metaRead, orphanMeta, res, settle >>

\* The awaited handler throws inside the adapter's try block.
HandlerThrow ==
    /\ pc = "handler"
    /\ CatchAndRebuild("handler failed", settle)

\* A metadata read that nobody awaits settles and writes the cache.
OrphanMetadataReturn(key, nameOk, versionOk) ==
    /\ UNCHANGED << payerVars, clientVars, sdkVars >>
    /\ key \in orphanMeta
    /\ orphanMeta' = orphanMeta \ {key}
    /\ tokenMetadataCache' =
          (key :> metadataOf([network |-> key[1], asset |-> key[2]],
                             nameOk, versionOk))
          @@ tokenMetadataCache
    /\ UNCHANGED << adapter, routes, wrapped, decimalsCache, req, pc, errAnn,
                    decRead, metaRead,
                    res, obs, settle >>

PayeeNext ==
    \/ \E p \in Paths, h \in Headers : Arrive(p, h)
    \/ \E ok \in BOOLEAN : BuildDecimalsReturn(ok)
    \/ \E n \in BOOLEAN, v \in BOOLEAN : BuildMetadataReturn(n, v)
    \/ BuildFinish
    \/ \E ok \in BOOLEAN : SettleDecimalsReturn(ok)
    \/ FacilitatorSettles
    \/ \E success \in BOOLEAN : SettleOk(success)
    \/ \E r \in RejectReasons : SettleRejected(r)
    \/ SettleBadBody
    \/ SettleTransportFail
    \/ SettleTimeout
    \/ HandlerReturn
    \/ HandlerThrow
    \/ \E k \in orphanMeta, n \in BOOLEAN, v \in BOOLEAN :
          OrphanMetadataReturn(k, n, v)


\* ------------------------------------------------------------------------
\* Payer state (x402Fetch)
\* ------------------------------------------------------------------------

\* options.maxAmount as a decimal string; a missing option is 0.10.
Ceilings == { Amt(0, <<5, 0>>), NoAmount }

maxAmountOf(opt) == IF opt.defined THEN opt ELSE Amt(0, <<1, 0>>)

\* maxAmountRequired values a server may ask for, in atomic units.
MaxAtomic == 1000000

AtomicAmounts == { 10000, 500000, 500001, MaxAtomic }

\* The requirement a 402 body carries: servers on either network ask for
\* the token whose address is the same on both.
Requirements ==
    { [asset |-> "USDC", maxAmountRequired |-> m, payTo |-> PayTo,
       network |-> "base"] : m \in AtomicAmounts }
    \cup { [asset |-> "USDC", maxAmountRequired |-> 10000, payTo |-> PayTo,
             network |-> "bsc"] }

NoRequirements == [asset |-> Undefined, maxAmountRequired |-> 0,
                   payTo |-> Undefined, network |-> Undefined]

\* 402 bodies: { paymentRequirements: R }, R itself, the payee's
\* { x402Version, accepts: [R] }, or a body that is not JSON.
BodyShapes == {"wrapped", "flat", "accepts", "notJson"}

Statuses == {200, 402, 500}

\* paymentRequired.paymentRequirements || paymentRequired: the object whose
\* asset, maxAmountRequired and payTo fields the payer reads.
requirementsOf(shape, r) ==
    IF shape \in {"wrapped", "flat"} THEN r ELSE NoRequirements

\* parseFloat(ethers.formatUnits(m, d)) > maxAmount, for an m of at most
\* ten digits: both sides are decimals of few digits, on which the
\* comparison of the doubles is the comparison of the values.
exceeds(m, d, maxAmount) ==
    LET k  == Len(maxAmount.frac)
        mu == maxAmount.whole * Pow10(k) + DigitsValue(maxAmount.frac)
    IN  IF d >= k THEN m > mu * Pow10(d - k)
        ELSE m * Pow10(k - d) > mu

NoErr ==
    [msg |-> "", code |-> "", amount |-> << 0, 0 >>, maxAmount |-> NoAmount]

Err(msg) ==
    [msg |-> msg, code |-> "", amount |-> << 0, 0 >>, maxAmount |-> NoAmount]

\* The error createPayment throws when the proxy's allowance is too small.
InsufficientAllowance ==
    [msg |-> "Insufficient allowance", code |-> "INSUFFICIENT_ALLOWANCE",
     amount |-> << 0, 0 >>, maxAmount |-> NoAmount]

NoCall == [network |-> "base", maxAmount |-> NoAmount]

NoFirst == [status |-> 0, shape |-> "flat", requirements |-> NoRequirements]

NoPobs == [fetchCalls |-> 0, signCalls |-> 0, rpcReads |-> 0,
           retryWithHeader |-> 0, cacheWrites |-> 0, facilitatorCalls |-> 0,
           probes |-> 0, nonceReads |-> 0]

\* signer.getNetwork().chainId and signer.getAddress().
ChainId(network) == IF network = "base" THEN 8453 ELSE 56

SignerAddress == "0xPayer"

\* contracts[network].stargate of the facilitator's GET /contracts.
StargateOf(network) == "stargate@" \o network

\* Math.floor(Date.now() / 1000) as read by a build.
Times == { 1700000000, 1700003599 }

\* generateRandomBytes32().
RandomNonces == { 7777, 8888 }

\* Outcomes of the authorizationState(address, testNonce) read.
ProbeResults == { "ok", "revert", "missing", "rpcError" }

\* Settlements the proxy contract executes for (user, token) in a run.
MaxNonce == 2

\* What allowance(owner, proxy) can answer; NotRead before the read.
Allowances == { 0, 9999, 10000, MaxAtomic }

NotRead == -1

NoBuild == [now |-> 0, tokenName |-> "", tokenVersion |-> "",
            probe |-> "none", isEIP3009 |-> FALSE, allowance |-> NotRead]

NoDomain == [name |-> "", version |-> "", chainId |-> 0,
             verifyingContract |-> Undefined]

NoMessage == [token |-> Undefined, from |-> Undefined, to |-> Undefined,
              value |-> 0, validAfter |-> 0, validBefore |-> 0, nonce |-> 0]

NoSigned == [primaryType |-> "", domain |-> NoDomain, message |-> NoMessage]

NoProbeLog == [once |-> {}, again |-> {}]

\* validAfter and validBefore for the clock value now.
validityNoSkew(now) == [validAfter |-> now, validBefore |-> now + 3600]

validity(now) == [validAfter |-> now - 60, validBefore |-> now + 3600]

\* domain, types and message of the EIP-3009 branch; the message has no
\* token field.
nativeTypedData(network, r, b, nonce) ==
    [primaryType |-> "TransferWithAuthorization",
     domain |-> [name |-> b.tokenName, version |-> b.tokenVersion,
                 chainId |-> ChainId(network), verifyingContract |-> r.asset],
     message |-> [token |-> Undefined, from |-> SignerAddress,
                  to |-> r.payTo, value |-> r.maxAmountRequired,
                  validAfter |-> validity(b.now).validAfter,
                  validBefore |-> validity(b.now).validBefore,
                  nonce |-> nonce]]

proxiedTypedDataTokenDomain(network, r, b, nonce) ==
    [primaryType |-> "ERC20Payment",
     domain |-> [name |-> b.tokenName, version |-> b.tokenVersion,
                 chainId |-> ChainId(network), verifyingContract |-> r.asset],
     message |-> [token |-> r.asset, from |-> SignerAddress,
                  to |-> r.payTo, value |-> r.maxAmountRequired,
                  validAfter |-> validity(b.now).validAfter,
                  validBefore |-> validity(b.now).validBefore,
                  nonce |-> nonce]]

\* domain, types and message of the Stargate branch.
proxiedTypedData(network, r, b, nonce) ==
    [primaryType |-> "ERC20Payment",
     domain |-> [name |-> "Megalith", version |-> "1",
                 chainId |-> ChainId(network),
                 verifyingContract |-> StargateOf(network)],
     message |-> [token |-> r.asset, from |-> SignerAddress,
                  to |-> r.payTo, value |-> r.maxAmountRequired,
                  validAfter |-> validity(b.now).validAfter,
                  validBefore |-> validity(b.now).validBefore,
                  nonce |-> nonce]]

NoAuthorization == [from |-> Undefined, to |-> Undefined, value |-> 0,
                    validAfter |-> 0, validBefore |-> 0, nonce |-> 0]

NoEnvelope == [x402Version |-> 0, scheme |-> "", network |-> Undefined,
               authorization |-> NoAuthorization]

x402PayloadReadingClockAgain(network, r, b, nonce) ==
    [x402Version |-> 1, scheme |-> "exact", network |-> network,
     authorization |-> [from |-> SignerAddress,
                        to |-> r.payTo, value |-> r.maxAmountRequired,
                        validAfter |-> validity(b.now + 1).validAfter,
                        validBefore |-> validity(b.now + 1).validBefore,
                        nonce |-> nonce]]

\* The x402 payload createPayment returns: network.name of the signer, and
\* the authorization written from the locals the message was written from
\* (address, payTo, value, validAfter, validBefore, nonce).
x402Payload(network, r, b, nonce) ==
    [x402Version |-> 1, scheme |-> "exact", network |-> network,
     authorization |-> [from |-> SignerAddress,
                        to |-> r.payTo, value |-> r.maxAmountRequired,
                        validAfter |-> validity(b.now).validAfter,
                        validBefore |-> validity(b.now).validBefore,
                        nonce |-> nonce]]

PayerInit ==
    /\ payerDecimalsCache = << >>
    /\ call = NoCall
    /\ ppc = "idle"
    /\ first = NoFirst
    /\ used = << >>
    /\ pobs = NoPobs
    /\ perr = NoErr
    /\ pret = 0
    /\ stargateNonce = 0
    /\ probeLog = NoProbeLog
    /\ build = NoBuild
    /\ signed = NoSigned
    /\ envelope = NoEnvelope

\* The call throws.
Throw(e) ==
    /\ ppc' = "done"
    /\ perr' = e

\* The ceiling check with decimals d, and createPayment up to its first
\* await (the name() read of getTokenDetails).
ceilingCheck(r, d, o) ==
    /\ used' = << d >>
    /\ IF exceeds(r.maxAmountRequired, d, maxAmountOf(call.maxAmount))
       THEN /\ Throw([msg |-> "Payment amount exceeds maxAmount",
                      code |-> "",
                      amount |-> << r.maxAmountRequired, d >>,
                      maxAmount |-> maxAmountOf(call.maxAmount)])
            /\ pobs' = o
       ELSE /\ ppc' = "details"
            /\ perr' = perr
            /\ pobs' = [o EXCEPT !.rpcReads = @ + 1]

\* fetchWithPayment(url, init) is called through a signer on some network:
\* the original request is issued.
CallFetch(network, maxAmount) ==
    /\ UNCHANGED << payeeVars, clientVars, sdkVars >>
    /\ ppc \in {"idle", "done"}
    /\ call' = [network |-> network, maxAmount |-> maxAmount]
    /\ ppc' = "fetch1"
    /\ first' = NoFirst
    /\ used' = << >>
    /\ pobs' = [NoPobs EXCEPT !.fetchCalls = 1]
    /\ perr' = NoErr
    /\ pret' = 0
    /\ build' = NoBuild
    /\ signed' = NoSigned
    /\ envelope' = NoEnvelope
    /\ UNCHANGED << payerDecimalsCache, stargateNonce, probeLog >>

FirstResponseOnly200(status, shape, r) ==
    /\ UNCHANGED << payeeVars, clientVars, sdkVars >>
    /\ ppc = "fetch1"
    /\ first' = [status |-> status, shape |-> shape, requirements |-> r]
    /\ LET q == requirementsOf(shape, r) IN
       IF status = 200
       THEN /\ ppc' = "done"
            /\ pret' = status
            /\ UNCHANGED << used, pobs, perr >>
       ELSE IF q.asset \in DOMAIN payerDecimalsCache
       THEN ceilingCheck(q, payerDecimalsCache[q.asset], pobs)
            /\ UNCHANGED pret
       ELSE IF q.asset = Undefined
       THEN Throw(Err("invalid value for Contract target"))
            /\ UNCHANGED << used, pobs, pret >>
       ELSE /\ ppc' = "decimals"
            /\ pobs' = [pobs EXCEPT !.rpcReads = @ + 1]
            /\ UNCHANGED << used, perr, pret >>
    /\ UNCHANGED << payerDecimalsCache, call, stargateNonce, probeLog, build,
                    signed, envelope >>

\* The server answers the original request.
FirstResponse(status, shape, r) ==
    /\ UNCHANGED << payeeVars, clientVars, sdkVars >>
    /\ ppc = "fetch1"
    /\ first' = [status |-> status, shape |-> shape, requirements |-> r]
    /\ LET q == requirementsOf(shape, r) IN
       IF status # 402
       THEN /\ ppc' = "done"
            /\ pret' = status
            /\ UNCHANGED << used, pobs, perr >>
       ELSE IF shape = "notJson"
       THEN Throw(Err("Unexpected token in JSON"))
            /\ UNCHANGED << used, pobs, pret >>
       ELSE IF q.asset \in DOMAIN payerDecimalsCache
       THEN ceilingCheck(q, payerDecimalsCache[q.asset], pobs)
            /\ UNCHANGED pret
       ELSE IF q.asset = Undefined
       THEN Throw(Err("invalid value for Contract target"))
            /\ UNCHANGED << used, pobs, pret >>
       ELSE /\ ppc' = "decimals"
            /\ pobs' = [pobs EXCEPT !.rpcReads = @ + 1]
            /\ UNCHANGED << used, perr, pret >>
    /\ UNCHANGED << payerDecimalsCache, call, stargateNonce, probeLog, build,
                    signed, envelope >>

\* decimals() of the requirement's asset, read through the signer's
\* provider, answers.
PayerDecimalsReturn(ok) ==
    /\ UNCHANGED << payeeVars, clientVars, sdkVars >>
    /\ ppc = "decimals"
    /\ LET q == requirementsOf(first.shape, first.requirements)
           d == ChainDecimals(call.network, q.asset)
       IN  IF ok
           THEN /\ payerDecimalsCache' = (q.asset :> d) @@ payerDecimalsCache
                /\ ceilingCheck(q, d, [pobs EXCEPT !.cacheWrites = @ + 1])
           ELSE /\ Throw(Err("could not read decimals"))
                /\ UNCHANGED << payerDecimalsCache, used, pobs >>
    /\ UNCHANGED << call, first, pret, stargateNonce, probeLog, build,
                    signed, envelope >>

\* What a build records of a token whose reads went as given.
detailsOf(network, asset, versionOk, probe, t) ==
    [now |-> t,
     tokenName |-> ChainName(network, asset),
     tokenVersion |-> IF versionOk THEN ChainVersion(network, asset) ELSE "1",
     probe |-> probe,
     isEIP3009 |-> (probe = "ok"),
     allowance |-> NotRead]

\* The probe is issued for the pair: noted once, and again when repeated.
logProbe(log, pair) ==
    [once |-> log.once \cup {pair},
     again |-> IF pair \in log.once THEN log.again \cup {pair} ELSE log.again]

DetailsReturnProbeThrows(nameOk, versionOk, probe, t, rn) ==
    /\ UNCHANGED << payeeVars, clientVars, sdkVars >>
    /\ ppc = "details"
    /\ nameOk
    /\ LET q == requirementsOf(first.shape, first.requirements)
           b == detailsOf(call.network, q.asset, versionOk, probe, t)
           o == [pobs EXCEPT !.rpcReads = @ + 2, !.probes = @ + 1]
       IN  /\ build' = b
           /\ envelope' = envelope
           /\ probeLog' = logProbe(probeLog, << call.network, q.asset >>)
           /\ IF b.isEIP3009
              THEN /\ ppc' = "sign"
                   /\ perr' = perr
                   /\ signed' = nativeTypedData(call.network, q, b, rn)
                   /\ pobs' = [o EXCEPT !.signCalls = @ + 1]
              ELSE /\ Throw(Err("authorizationState failed"))
                   /\ signed' = signed
                   /\ pobs' = o
    /\ UNCHANGED << payerDecimalsCache, call, first, used, pret,
                    stargateNonce >>

\* getTokenDetails settles: name() failed, or name(), version() and the
\* authorizationState probe were read and the token is classified; the
\* build reads the clock, and a Native token goes to the signer at once.
DetailsReturn(nameOk, versionOk, probe, t, rn) ==
    /\ UNCHANGED << payeeVars, clientVars, sdkVars >>
    /\ ppc = "details"
    /\ IF ~nameOk
       THEN /\ Throw(Err("Failed to get token name"))
            /\ UNCHANGED << pobs, probeLog, build, signed,
                    envelope >>
       ELSE LET q == requirementsOf(first.shape, first.requirements)
                b == detailsOf(call.network, q.asset, versionOk, probe, t)
                o == [pobs EXCEPT !.rpcReads = @ + 2, !.probes = @ + 1]
            IN  /\ build' = b
                /\ envelope' = envelope
                /\ probeLog' = logProbe(probeLog, << call.network, q.asset >>)
                /\ perr' = perr
                /\ IF b.isEIP3009
                   THEN /\ ppc' = "sign"
                        /\ signed' = nativeTypedData(call.network, q, b, rn)
                        /\ pobs' = [o EXCEPT !.signCalls = @ + 1]
                   ELSE /\ ppc' = "stargate"
                        /\ signed' = signed
                        /\ pobs' = [o EXCEPT !.facilitatorCalls = @ + 1]
    /\ UNCHANGED << payerDecimalsCache, call, first, used, pret,
                    stargateNonce >>

ProxiedStepLocalNonce(ok) ==
    /\ UNCHANGED << payeeVars, clientVars, sdkVars >>
    /\ ppc \in {"stargate", "nonce"}
    /\ ppc' = IF ppc = "stargate" THEN "allowance" ELSE "sign"
    /\ pobs' = IF ppc = "nonce"
               THEN [pobs EXCEPT !.signCalls = @ + 1] ELSE pobs
    /\ signed' =
          IF ppc = "nonce"
          THEN proxiedTypedData(
                  call.network,
                  requirementsOf(first.shape, first.requirements), build,
                  stargateNonce + 1)
          ELSE signed
    /\ envelope' = envelope
    /\ UNCHANGED << payerDecimalsCache, call, first, used, pret, perr,
                    stargateNonce, probeLog, build >>

AllowanceReturnUnchecked(ok, allowance) ==
    /\ UNCHANGED << payeeVars, clientVars, sdkVars >>
    /\ ppc = "allowance"
    /\ build' = [build EXCEPT !.allowance = IF ok THEN allowance ELSE @]
    /\ IF ~ok
       THEN /\ Throw(Err("could not read allowance"))
            /\ pobs' = pobs
       ELSE /\ ppc' = "nonce"
            /\ perr' = perr
            /\ pobs' = [pobs EXCEPT !.rpcReads = @ + 1, !.nonceReads = @ + 1]
    /\ UNCHANGED << payerDecimalsCache, call, first, used, pret,
                    stargateNonce, probeLog, signed, envelope >>

\* Proxied path: checkAllowance returns. An allowance below the value is
\* thrown as INSUFFICIENT_ALLOWANCE; otherwise getNonce() is read next.
AllowanceReturn(ok, allowance) ==
    /\ UNCHANGED << payeeVars, clientVars, sdkVars >>
    /\ ppc = "allowance"
    /\ build' = [build EXCEPT !.allowance = IF ok THEN allowance ELSE @]
    /\ IF ~ok
       THEN /\ Throw(Err("could not read allowance"))
            /\ pobs' = pobs
       ELSE IF allowance
                 < requirementsOf(first.shape,
                                  first.requirements).maxAmountRequired
       THEN /\ Throw(InsufficientAllowance)
            /\ pobs' = [pobs EXCEPT !.rpcReads = @ + 1]
       ELSE /\ ppc' = "nonce"
            /\ perr' = perr
            /\ pobs' = [pobs EXCEPT !.rpcReads = @ + 1, !.nonceReads = @ + 1]
    /\ UNCHANGED << payerDecimalsCache, call, first, used, pret,
                    stargateNonce, probeLog, signed, envelope >>

\* Proxied path: GET /contracts and getNonce() return; the message
\* carries the nonce getNonce returned and goes to the signer.
ProxiedStep(ok) ==
    /\ UNCHANGED << payeeVars, clientVars, sdkVars >>
    /\ ppc \in {"stargate", "nonce"}
    /\ IF ~ok
       THEN /\ Throw(Err(IF ppc = "stargate"
                         THEN "Failed to fetch Stargate"
                         ELSE "could not read nonce"))
            /\ UNCHANGED << pobs, signed, envelope >>
       ELSE /\ ppc' = IF ppc = "stargate" THEN "allowance" ELSE "sign"
            /\ pobs' = IF ppc = "stargate"
                       THEN [pobs EXCEPT !.rpcReads = @ + 1]
                       ELSE [pobs EXCEPT !.signCalls = @ + 1]
            /\ signed' =
                  IF ppc = "nonce"
                  THEN proxiedTypedData(
                          call.network,
                          requirementsOf(first.shape, first.requirements),
                          build, stargateNonce)
                  ELSE signed
            /\ envelope' = envelope
            /\ perr' = perr
    /\ UNCHANGED << payerDecimalsCache, call, first, used, pret,
                    stargateNonce, probeLog, build >>

SignReturnAskingAgain(ok) ==
    /\ UNCHANGED << payeeVars, clientVars, sdkVars >>
    /\ ppc = "sign"
    /\ IF ok
       THEN /\ ppc' = "fetch2"
            /\ pobs' = [pobs EXCEPT !.fetchCalls = @ + 1,
                                    !.retryWithHeader = @ + 1]
       ELSE /\ ppc' = "sign"
            /\ pobs' = [pobs EXCEPT !.signCalls = @ + 1]
    /\ perr' = perr
    /\ envelope' = envelope
    /\ UNCHANGED << payerDecimalsCache, call, first, used, pret,
                    stargateNonce, probeLog, build, signed >>

\* signer.signTypedData settles: with a signature createPayment returns
\* the payload and the request is reissued with it in the X-PAYMENT header;
\* a refusal ends the call.
SignReturn(ok) ==
    /\ UNCHANGED << payeeVars, clientVars, sdkVars >>
    /\ ppc = "sign"
    /\ IF ok
       THEN /\ ppc' = "fetch2"
            /\ pobs' = [pobs EXCEPT !.fetchCalls = @ + 1,
                                    !.retryWithHeader = @ + 1]
            /\ perr' = perr
            /\ envelope' =
                  x402Payload(call.network,
                              requirementsOf(first.shape, first.requirements),
                              build, signed.message.nonce)
       ELSE Throw(Err("signer refused")) /\ pobs' = pobs
                                         /\ envelope' = envelope
    /\ UNCHANGED << payerDecimalsCache, call, first, used, pret,
                    stargateNonce, probeLog, build, signed >>

SecondResponseRetrying(status) ==
    /\ UNCHANGED << payeeVars, clientVars, sdkVars >>
    /\ ppc = "fetch2"
    /\ IF status = 402
       THEN /\ ppc' = "fetch2"
            /\ pobs' = [pobs EXCEPT !.fetchCalls = @ + 1,
                                    !.retryWithHeader = @ + 1]
            /\ pret' = pret
       ELSE /\ ppc' = "done"
            /\ pobs' = pobs
            /\ pret' = status
    /\ UNCHANGED << payerDecimalsCache, call, first, used, perr,
                    stargateNonce, probeLog, build, signed,
                    envelope >>

\* The server answers the retry; its response is returned as it is.
SecondResponse(status) ==
    /\ UNCHANGED << payeeVars, clientVars, sdkVars >>
    /\ ppc = "fetch2"
    /\ ppc' = "done"
    /\ pret' = status
    /\ UNCHANGED << payerDecimalsCache, call, first, used, pobs, perr,
                    stargateNonce, probeLog, build, signed,
                    envelope >>

\* The proxy contract executes a settlement of (user, token): its nonce for
\* the pair moves on.
ProxySettles ==
    /\ UNCHANGED << payeeVars, clientVars, sdkVars >>
    /\ stargateNonce < MaxNonce
    /\ stargateNonce' = stargateNonce + 1
    /\ UNCHANGED << payerDecimalsCache, call, ppc, first, used, pobs, perr,
                    pret, probeLog, build, signed,
                    envelope >>

\* Requests one logical axios request may issue in a run.
MaxAttempts == 3

\* axiosWithPay.request(config) through a signer on some network: the
\* request is issued.
CallAxios(network, maxAmount) ==
    /\ UNCHANGED << payeeVars, clientVars, sdkVars >>
    /\ ppc \in {"idle", "done"}
    /\ call' = [network |-> network, maxAmount |-> maxAmount]
    /\ ppc' = "fetch1"
    /\ first' = NoFirst
    /\ used' = << >>
    /\ pobs' = [NoPobs EXCEPT !.fetchCalls = 1]
    /\ perr' = NoErr
    /\ pret' = 0
    /\ build' = NoBuild
    /\ signed' = NoSigned
    /\ envelope' = NoEnvelope
    /\ UNCHANGED << payerDecimalsCache, stargateNonce, probeLog >>

\* The server answers a request issued through the wrapped instance, the
\* original one or one reissued by the interceptor: the response
\* interceptors of the instance run on it.
AxiosResponse(status, shape, r) ==
    /\ UNCHANGED << payeeVars, clientVars, sdkVars >>
    /\ ppc \in {"fetch1", "fetch2"}
    /\ status = 402 => pobs.fetchCalls < MaxAttempts
    /\ first' = [status |-> status, shape |-> shape, requirements |-> r]
    /\ LET q == requirementsOf(shape, r) IN
       IF status = 200
       THEN /\ ppc' = "done"
            /\ pret' = status
            /\ UNCHANGED << used, pobs, perr >>
       ELSE IF status # 402
       THEN Throw(Err("Request failed with status code"))
            /\ UNCHANGED << used, pobs, pret >>
       ELSE IF q.asset \in DOMAIN payerDecimalsCache
       THEN ceilingCheck(q, payerDecimalsCache[q.asset], pobs)
            /\ UNCHANGED pret
       ELSE IF q.asset = Undefined
       THEN Throw(Err("invalid value for Contract target"))
            /\ UNCHANGED << used, pobs, pret >>
       ELSE /\ ppc' = "decimals"
            /\ pobs' = [pobs EXCEPT !.rpcReads = @ + 1]
            /\ UNCHANGED << used, perr, pret >>
    /\ UNCHANGED << payerDecimalsCache, call, stargateNonce, probeLog, build,
                    signed, envelope >>

\* One signer, on base; the clock and the random nonce of a build do not
\* bear on the number of attempts and are held fixed.
AxiosNext ==
    \/ \E m \in Ceilings : CallAxios("base", m)
    \/ \E st \in Statuses, sh \in BodyShapes, r \in Requirements :
          AxiosResponse(st, sh, r)
    \/ \E ok \in BOOLEAN : PayerDecimalsReturn(ok)
    \/ \E n \in BOOLEAN, pr \in {"ok", "revert"} :
          DetailsReturn(n, TRUE, pr, 1700000000, 7777)
    \/ \E ok \in BOOLEAN : ProxiedStep(ok)
    \/ \E ok \in BOOLEAN, a \in Allowances : AllowanceReturn(ok, a)
    \/ \E ok \in BOOLEAN : SignReturn(ok)
    \/ ProxySettles

PayerNext ==
    \/ \E n \in NETWORKS, m \in Ceilings : CallFetch(n, m)
    \/ \E st \in Statuses, sh \in BodyShapes, r \in Requirements :
          FirstResponse(st, sh, r)
    \/ \E ok \in BOOLEAN : PayerDecimalsReturn(ok)
    \/ \E n \in BOOLEAN, v \in BOOLEAN, pr \in ProbeResults, t \in Times,
          rn \in RandomNonces : DetailsReturn(n, v, pr, t, rn)
    \/ \E ok \in BOOLEAN : ProxiedStep(ok)
    \/ \E ok \in BOOLEAN, a \in Allowances : AllowanceReturn(ok, a)
    \/ \E ok \in BOOLEAN : SignReturn(ok)
    \/ \E st \in Statuses : SecondResponse(st)
    \/ ProxySettles

\* ------------------------------------------------------------------------
\* The validity window of an authorization, at each site that builds one
\* ------------------------------------------------------------------------

\* The wall clock advances by TickMs up to MaxMs past ClockBase.
TickMs == 500

MaxMs == 10000

ClockBase == CHOOSE t \in Times : \A u \in Times : t <= u

\* Math.floor(Date.now() / 1000), Date.now() being ClockBase seconds and
\* ms milliseconds.
unixNow(ms) == ClockBase + (ms \div 1000)

NoWindow == [site |-> "none", now |-> 0, validAfter |-> 0, validBefore |-> 0]

ClientInit ==
    /\ clk = 0
    /\ window = NoWindow

\* X402Client._createEIP3009Payment: the authorization's window.
createEIP3009Payment(now) ==
    LET validAfter == now - 60
        validBefore == now + 3600
    IN  [validAfter |-> validAfter, validBefore |-> validBefore]

\* X402Client._createERC20Payment: the authorization's window.
createERC20Payment(now) ==
    LET validAfter == now - 60
        validBefore == now + 3600
    IN  [validAfter |-> validAfter, validBefore |-> validBefore]

Tick ==
    /\ clk + TickMs <= MaxMs
    /\ clk' = clk + TickMs
    /\ UNCHANGED << window, payeeVars, payerVars, sdkVars >>

\* createPayment of payer.js builds an authorization of either scheme.
CreatePaymentWindow(isEIP3009, r) ==
    LET b == [NoBuild EXCEPT !.now = unixNow(clk), !.isEIP3009 = isEIP3009]
        td == IF isEIP3009
              THEN nativeTypedData("base", r, b, 0)
              ELSE proxiedTypedData("base", r, b, 0)
    IN  /\ window' = [site |-> IF isEIP3009 THEN "createPayment:eip3009"
                                ELSE "createPayment:stargate",
                      now |-> b.now,
                      validAfter |-> td.message.validAfter,
                      validBefore |-> td.message.validBefore]
        /\ UNCHANGED << clk, payeeVars, payerVars, sdkVars >>

ClientEIP3009Window ==
    LET now == unixNow(clk)
        a == createEIP3009Payment(now)
    IN  /\ window' = [site |-> "_createEIP3009Payment", now |-> now,
                      validAfter |-> a.validAfter,
                      validBefore |-> a.validBefore]
        /\ UNCHANGED << clk, payeeVars, payerVars, sdkVars >>

ClientERC20Window ==
    LET now == unixNow(clk)
        a == createERC20Payment(now)
    IN  /\ window' = [site |-> "_createERC20Payment", now |-> now,
                      validAfter |-> a.validAfter,
                      validBefore |-> a.validBefore]
        /\ UNCHANGED << clk, payeeVars, payerVars, sdkVars >>

ValidityNext ==
    \/ Tick
    \/ \E e \in BOOLEAN, r \in Requirements : CreatePaymentWindow(e, r)
    \/ ClientEIP3009Window
    \/ ClientERC20Window

\* ------------------------------------------------------------------------
\* A requirement issued by the payee and paid by the payer
\* ------------------------------------------------------------------------

NoHandshake == [st |-> "none", config |-> CfgPremium, extra |-> NoMeta,
                typed |-> NoSigned]

\* Route configs that are complete, on a known network.
IssuableConfigs == { CfgPremium, CfgApi, CfgBscCheap, CfgBscApi }

\* buildPaymentRequirements answers a request without payment for config c:
\* the requirement carries what getTokenMetadata obtained.
PayeeIssues(c, nameOk, versionOk) ==
    /\ handshake.st # "issued"
    /\ LET d == ChainDecimals(c.network, c.asset)
           R == requirement(c, parseUnits(c.amount, d).value,
                            metadataOf(c, nameOk, versionOk), << "api" >>)
       IN  handshake' = [st |-> "issued", config |-> c, extra |-> R.extra,
                         typed |-> NoSigned]
    /\ UNCHANGED << xclient, script, conv, payeeVars, payerVars, clientVars >>

\* createPayment of the payer for the requirement issued: getTokenDetails
\* reads name(), version() and probes; a Native token is signed under the
\* token's own domain.
PayerPays(nameOk, versionOk, probe, t, rn) ==
    /\ handshake.st = "issued"
    /\ LET c == handshake.config
           d == ChainDecimals(c.network, c.asset)
           r == [asset |-> c.asset,
                 maxAmountRequired |-> parseUnits(c.amount, d).value,
                 payTo |-> c.payTo]
           b == detailsOf(c.network, c.asset, versionOk, probe, t)
       IN  handshake' =
              IF ~nameOk THEN [handshake EXCEPT !.st = "failed"]
              ELSE IF ~b.isEIP3009 THEN [handshake EXCEPT !.st = "proxied"]
              ELSE [handshake EXCEPT
                      !.st = "paid",
                      !.typed = nativeTypedData(c.network, r, b, rn)]
    /\ UNCHANGED << xclient, script, conv, payeeVars, payerVars, clientVars >>

HandshakeNext ==
    \/ \E c \in IssuableConfigs, n \in BOOLEAN, v \in BOOLEAN :
          PayeeIssues(c, n, v)
    \/ \E n \in BOOLEAN, v \in BOOLEAN, pr \in ProbeResults, t \in Times,
          rn \in RandomNonces : PayerPays(n, v, pr, t, rn)

\* ------------------------------------------------------------------------
\* The signer script (Signer/signer.js)
\* ------------------------------------------------------------------------

\* NETWORK of signer.env: the chain ids of NETWORK_CONFIG and one that is
\* not there.
ScriptNetworks == { 56, 97, 1 }

ScriptKnownNetworks == { 56, 97 }

NoPayment == [x402Version |-> 0, scheme |-> "", network |-> 0,
              primaryType |-> "", domainName |-> "", domainVersion |-> "",
              nonce |-> 0]

NoScript == [pc |-> "idle", NETWORK |-> 0, TOKEN |-> Undefined,
             tokenVersion |-> "", tokenDecimals |-> 0, isEIP3009 |-> FALSE,
             exit |-> 0, x402Payment |-> NoPayment,
             requirementsScheme |-> ""]

\* process.exit(1)
ScriptExit(sc) == [sc EXCEPT !.pc = "done", !.exit = 1]

\* The x402Payment object of either path.
x402PaymentOf(sc, primaryType, domainName, domainVersion, nonce) ==
    [x402Version |-> 1, scheme |-> "exact", network |-> sc.NETWORK,
     primaryType |-> primaryType, domainName |-> domainName,
     domainVersion |-> domainVersion, nonce |-> nonce]

\* The script starts: signer.env is read and validated.
ScriptStart(network, token) ==
    /\ script.pc \in {"idle", "done"}
    /\ script' =
          LET sc == [NoScript EXCEPT !.NETWORK = network, !.TOKEN = token]
          IN  IF network \notin ScriptKnownNetworks \/ token = Undefined
              THEN ScriptExit(sc)
              ELSE [sc EXCEPT !.pc = "details"]
    /\ UNCHANGED << handshake, xclient, conv, payeeVars, payerVars,
                    clientVars >>

\* name(), version(), symbol(), decimals() and balanceOf() have answered:
\* only a failed name() ends the script.
ScriptTokenDetails(nameOk, versionOk, decimalsOk) ==
    /\ script.pc = "details"
    /\ script' =
          IF ~nameOk THEN ScriptExit(script)
          ELSE [script EXCEPT
                  !.pc = "detect",
                  !.tokenVersion =
                     IF versionOk THEN ChainVersion("bsc", script.TOKEN)
                     ELSE "1",
                  !.tokenDecimals =
                     IF decimalsOk THEN ChainDecimals("bsc", script.TOKEN)
                     ELSE 18]
    /\ UNCHANGED << handshake, xclient, conv, payeeVars, payerVars,
                    clientVars >>

\* The authorizationState probe answers or fails.
ScriptDetect(probe) ==
    /\ script.pc = "detect"
    /\ script' = [script EXCEPT
                    !.isEIP3009 = (probe = "ok"),
                    !.pc = IF probe = "ok" THEN "sign" ELSE "stargate"]
    /\ UNCHANGED << handshake, xclient, conv, payeeVars, payerVars,
                    clientVars >>

\* ERC-20 path: the Stargate address is fetched, then getNonce is read;
\* either failing ends the script (the approval check never does).
ScriptStargateStep(ok) ==
    /\ script.pc \in {"stargate", "nonce"}
    /\ script' =
          IF ~ok THEN ScriptExit(script)
          ELSE [script EXCEPT
                  !.pc = IF script.pc = "stargate" THEN "nonce" ELSE "sign"]
    /\ UNCHANGED << handshake, xclient, conv, payeeVars, payerVars,
                    clientVars >>

\* wallet.signTypedData, then the x402 payment and requirements objects are
\* built and written out.
ScriptSign(rn) ==
    /\ script.pc = "sign"
    /\ script' =
          [script EXCEPT
             !.pc = "done",
             !.requirementsScheme = "exact",
             !.x402Payment =
                IF script.isEIP3009
                THEN x402PaymentOf(script, "TransferWithAuthorization",
                                   ChainName("bsc", script.TOKEN),
                                   script.tokenVersion, rn)
                ELSE x402PaymentOf(script, "ERC20Payment", "Megalith", "1",
                                   stargateNonce)]
    /\ UNCHANGED << handshake, xclient, conv, payeeVars, payerVars,
                    clientVars >>

ScriptNext ==
    \/ \E n \in ScriptNetworks, t \in Assets \cup {Undefined} :
          ScriptStart(n, t)
    \/ \E n \in BOOLEAN, v \in BOOLEAN, d \in BOOLEAN :
          ScriptTokenDetails(n, v, d)
    \/ \E pr \in ProbeResults : ScriptDetect(pr)
    \/ \E ok \in BOOLEAN : ScriptStargateStep(ok)
    \/ \E rn \in RandomNonces : ScriptSign(rn)

\* ------------------------------------------------------------------------
\* X402Client (sdk/payee.js): pay = createPayment, then settlePayment
\* ------------------------------------------------------------------------

\* A token amount in base units, m x 10^e: a uint256 beyond machine
\* integers.  Mantissas stay below MaxMantissa.
MaxMantissa == 1000000

Big(m, e) == [m |-> m, e |-> e]

RECURSIVE numDigits(_)
numDigits(m) == IF m < 10 THEN 1 ELSE 1 + numDigits(m \div 10)

\* x < y on such amounts (the bigint comparison balance < value).
bigLess(x, y) ==
    IF x.m = 0 THEN y.m > 0
    ELSE IF y.m = 0 THEN FALSE
    ELSE LET ox == numDigits(x.m) + x.e
             oy == numDigits(y.m) + y.e
         IN  IF ox # oy THEN ox < oy
             ELSE IF x.e >= y.e THEN x.m * Pow10(x.e - y.e) < y.m
             ELSE x.m < y.m * Pow10(y.e - x.e)

\* ethers.parseUnits(amount, d) as such an amount.
parseUnitsBig(a, d) ==
    LET p == PadFrac(a.frac, d)
        k == IF Len(a.frac) < d THEN Len(a.frac) ELSE d
    IN  IF \E i \in (d + 1)..Len(p) : p[i] # 0
        THEN [ok |-> FALSE, value |-> Big(0, 0)]
        ELSE [ok |-> TRUE,
              value |-> Big(a.whole * Pow10(k)
                              + DigitsValue(SubSeq(a.frac, 1, k)),
                            d - k)]

\* Balances a wallet may hold, in base units.
Balances == { Big(0, 0), Big(9999, 0), Big(15, 5), Big(2, 20) }

\* The amount option of pay(): a decimal string, or missing.
PayAmounts == { Amt(0, <<0, 1>>), Amt(1, <<5>>), NoAmount }

NoXobs == [rpcReads |-> 0, probes |-> 0, nonceReads |-> 0, signCalls |-> 0,
           contractsCalls |-> 0, settleCalls |-> 0]

NoXPayload == [scheme |-> "", network |-> Undefined, isEIP3009 |-> FALSE,
               value |-> Big(0, 0), nonce |-> 0, validAfter |-> 0,
               validBefore |-> 0]

\* No client has been constructed in the process.
NoClient == [network |-> Undefined, pc |-> "idle", token |-> Undefined,
             amount |-> NoAmount, decimals |-> 0, value |-> Big(0, 0),
             balance |-> << >>, isEIP3009 |-> FALSE, err |-> "",
             settled |-> "none", payload |-> NoXPayload, obs |-> NoXobs]

\* new X402Client({ privateKey, network })
NewClient(network) == [NoClient EXCEPT !.network = network]

\* The call rejects with an Error of the given message.
XThrow(x, msg) == [x EXCEPT !.pc = "done", !.err = msg]

\* _formatX402Payload
formatX402Payload(x, isEIP3009, nonce, w) ==
    [scheme |-> "exact", network |-> x.network, isEIP3009 |-> isEIP3009,
     value |-> x.value, nonce |-> nonce, validAfter |-> w.validAfter,
     validBefore |-> w.validBefore]

\* client.pay({ to, amount, token }): createPayment validates its options
\* and getTokenDetails issues the name() read.
ClientPay(amount, token) ==
    /\ xclient.network # Undefined
    /\ xclient.pc \in {"idle", "done"}
    /\ xclient' =
          LET x == [NewClient(xclient.network) EXCEPT
                      !.amount = amount, !.token = token]
          IN  IF ~amount.defined \/ token = Undefined
              THEN XThrow(x, "to, amount, and token are required")
              ELSE [x EXCEPT !.pc = "details", !.obs.rpcReads = 1]
    /\ UNCHANGED << handshake, script, conv, payeeVars, payerVars, clientVars >>

\* getTokenDetails settles (name, version, symbol, decimals read in turn;
\* only a failed name() rejects, failed decimals() leaves 18); the amount
\* is parsed and the balanceOf read is issued.
ClientDetailsReturn(nameOk, decimalsOk) ==
    /\ xclient.pc = "details"
    /\ xclient' =
          LET d == IF decimalsOk
                   THEN ChainDecimals(xclient.network, xclient.token)
                   ELSE 18
              v == parseUnitsBig(xclient.amount, d)
              x == [xclient EXCEPT !.obs.rpcReads = @ + 3]
          IN  IF ~nameOk
              THEN XThrow(xclient, "Failed to fetch token name")
              ELSE IF ~v.ok
              THEN XThrow([x EXCEPT !.decimals = d],
                          "too many decimals for format")
              ELSE [x EXCEPT !.decimals = d, !.value = v.value,
                             !.pc = "balance", !.obs.rpcReads = @ + 1]
    /\ UNCHANGED << handshake, script, conv, payeeVars, payerVars, clientVars >>

ClientBalanceReturnUnchecked(ok, balance) ==
    /\ xclient.pc = "balance"
    /\ xclient' =
          IF ~ok THEN XThrow(xclient, "could not read balanceOf")
          ELSE [xclient EXCEPT !.balance = << balance >>, !.pc = "probe",
                               !.obs.rpcReads = @ + 1, !.obs.probes = @ + 1]
    /\ UNCHANGED << handshake, script, conv, payeeVars, payerVars, clientVars >>

\* balanceOf answers: a balance below the value ends the call; otherwise
\* isEIP3009Token issues the authorizationState probe.
ClientBalanceReturn(ok, balance) ==
    /\ xclient.pc = "balance"
    /\ xclient' =
          IF ~ok THEN XThrow(xclient, "could not read balanceOf")
          ELSE IF bigLess(balance, xclient.value)
          THEN XThrow([xclient EXCEPT !.balance = << balance >>],
                      "Insufficient balance")
          ELSE [xclient EXCEPT !.balance = << balance >>, !.pc = "probe",
                               !.obs.rpcReads = @ + 1, !.obs.probes = @ + 1]
    /\ UNCHANGED << handshake, script, conv, payeeVars, payerVars, clientVars >>

\* isEIP3009Token returns: _createEIP3009Payment signs at once,
\* _createERC20Payment first fetches the Stargate address.
ClientProbeReturn(probe, rn) ==
    /\ xclient.pc = "probe"
    /\ xclient' =
          IF probe = "ok"
          THEN [xclient EXCEPT
                  !.isEIP3009 = TRUE, !.pc = "sign", !.obs.signCalls = @ + 1,
                  !.payload =
                     formatX402Payload(xclient, TRUE, rn,
                                       createEIP3009Payment(unixNow(clk)))]
          ELSE [xclient EXCEPT !.isEIP3009 = FALSE, !.pc = "stargate",
                               !.obs.contractsCalls = @ + 1]
    /\ UNCHANGED << handshake, script, conv, payeeVars, payerVars, clientVars >>

\* _createERC20Payment: GET /contracts, allowance(), getNonce() in turn.
ClientProxiedStep(ok, allowance) ==
    /\ xclient.pc \in {"stargate", "allowance", "nonce"}
    /\ xclient' =
          IF ~ok
          THEN XThrow(xclient,
                      CASE xclient.pc = "stargate" ->
                              "Facilitator API returned 500"
                        [] xclient.pc = "allowance" ->
                              "could not read allowance"
                        [] OTHER -> "could not read getNonce")
          ELSE IF xclient.pc = "stargate"
          THEN [xclient EXCEPT !.pc = "allowance", !.obs.rpcReads = @ + 1]
          ELSE IF xclient.pc = "allowance"
          THEN IF bigLess(allowance, xclient.value)
               THEN XThrow(xclient, "Insufficient Stargate approval")
               ELSE [xclient EXCEPT !.pc = "nonce", !.obs.rpcReads = @ + 1,
                                    !.obs.nonceReads = @ + 1]
          ELSE [xclient EXCEPT
                  !.pc = "sign", !.obs.signCalls = @ + 1,
                  !.payload =
                     formatX402Payload(xclient, FALSE, stargateNonce,
                                       createERC20Payment(unixNow(clk)))]
    /\ UNCHANGED << handshake, script, conv, payeeVars, payerVars, clientVars >>

\* wallet.signTypedData settles: createPayment returns the payload and pay
\* hands it to settlePayment, which POSTs it to /settle.
ClientSignReturn(ok) ==
    /\ xclient.pc = "sign"
    /\ xclient' =
          IF ~ok THEN XThrow(xclient, "signing failed")
          ELSE [xclient EXCEPT !.pc = "settle", !.settled = "pending",
                               !.obs.settleCalls = @ + 1]
    /\ UNCHANGED << handshake, script, conv, payeeVars, payerVars, clientVars >>

\* Outcomes of the POST /settle of the client: a result, a rejection with
\* a JSON body, a body that is not JSON, a failed connection.
XSettleOutcomes == { "ok", "rejected", "badBody", "transport" }

\* Settle calls a failed pay() may have made before a re-submitting client
\* gives up.
MaxResubmits == 3

ClientSettleReturnResubmitting(outcome) ==
    /\ xclient.pc = "settle"
    /\ xclient' =
          IF outcome = "ok"
          THEN [xclient EXCEPT !.pc = "done", !.settled = outcome]
          ELSE IF xclient.obs.settleCalls < MaxResubmits
          THEN [xclient EXCEPT !.settled = outcome,
                               !.obs.settleCalls = @ + 1]
          ELSE XThrow([xclient EXCEPT !.settled = outcome],
                      "Settlement failed")
    /\ UNCHANGED << handshake, script, conv, payeeVars, payerVars, clientVars >>

\* The facilitator's answer to the client's POST /settle arrives, or the
\* request fails: the result is returned or the error propagates out of
\* pay().
ClientSettleReturn(outcome) ==
    /\ xclient.pc = "settle"
    /\ xclient' =
          IF outcome = "ok"
          THEN [xclient EXCEPT !.pc = "done", !.settled = outcome]
          ELSE XThrow([xclient EXCEPT !.settled = outcome],
                      CASE outcome = "rejected" -> "Settlement failed"
                        [] outcome = "badBody" -> "Unexpected token in JSON"
                        [] OTHER -> "fetch failed")
    /\ UNCHANGED << handshake, script, conv, payeeVars, payerVars, clientVars >>

ClientNext ==
    \/ \E a \in PayAmounts, t \in Assets \cup {Undefined} : ClientPay(a, t)
    \/ \E n \in BOOLEAN, d \in BOOLEAN : ClientDetailsReturn(n, d)
    \/ \E ok \in BOOLEAN, b \in Balances : ClientBalanceReturn(ok, b)
    \/ \E pr \in ProbeResults, rn \in RandomNonces : ClientProbeReturn(pr, rn)
    \/ \E ok \in BOOLEAN, a \in Balances : ClientProxiedStep(ok, a)
    \/ \E ok \in BOOLEAN : ClientSignReturn(ok)
    \/ \E o \in XSettleOutcomes : ClientSettleReturn(o)

\* ------------------------------------------------------------------------
\* An amount from the payee's config to the number the payer compares
\* ------------------------------------------------------------------------

\* Decimal strings are sequences of digits, most significant first; a
\* string with a point is its whole digits and its fractional digits.

RECURSIVE natDigits(_)
natDigits(n) ==
    IF n < 10 THEN << n >> ELSE Append(natDigits(n \div 10), n % 10)

RECURSIVE stripLeadingZeros(_)
stripLeadingZeros(ds) ==
    IF Len(ds) > 1 /\ ds[1] = 0 THEN stripLeadingZeros(Tail(ds)) ELSE ds

RECURSIVE stripTrailingZeros(_)
stripTrailingZeros(ds) ==
    IF Len(ds) > 1 /\ ds[Len(ds)] = 0
    THEN stripTrailingZeros(SubSeq(ds, 1, Len(ds) - 1))
    ELSE ds

isZero(ds) == \A i \in 1..Len(ds) : ds[i] = 0

\* ethers.parseUnits(amount.toString(), decimals).toString(): the digits
\* of amount * 10^decimals, exactly; more fractional digits than decimals
\* is "too many decimals for format".
toAtomicString(a, d) ==
    LET p == PadFrac(a.frac, d) IN
    IF \E i \in (d + 1)..Len(p) : p[i] # 0
    THEN [ok |-> FALSE, value |-> << 0 >>]
    ELSE [ok |-> TRUE,
          value |-> stripLeadingZeros(natDigits(a.whole) \o SubSeq(p, 1, d))]

\* ethers.formatUnits(value, d): the point is put d digits from the right
\* (after padding with zeros on the left), then leading zeros of the whole
\* part and trailing zeros of the fraction go, one digit staying on each
\* side; with d = 0 there is no point.
formatUnits(ds, d) ==
    IF d = 0 THEN [whole |-> ds, frac |-> << >>]
    ELSE LET n == IF Len(ds) > d THEN Len(ds) ELSE d + 1
             p == [i \in 1..n |->
                      IF i <= n - Len(ds) THEN 0 ELSE ds[i - (n - Len(ds))]]
         IN  [whole |-> stripLeadingZeros(SubSeq(p, 1, n - d)),
              frac  |-> stripTrailingZeros(SubSeq(p, n - d + 1, n))]

\* The significand of an IEEE 754 double, in bits.
MantissaBits == 53

RECURSIVE Pow2(_)
Pow2(n) == IF n = 0 THEN 1 ELSE 2 * Pow2(n - 1)

\* The bits of the expansion produced in one step of the conversion.
ChunkBits == 24

\* 0.f times m: the whole part of the product and its fraction digits.
RECURSIVE mulDigits(_, _)
mulDigits(f, m) ==
    IF f = << >> THEN [carry |-> 0, digits |-> << >>]
    ELSE LET r == mulDigits(Tail(f), m)
             v == Head(f) * m + r.carry
         IN  [carry |-> v \div 10, digits |-> << v % 10 >> \o r.digits]

RECURSIVE natBits(_)
natBits(n) == IF n = 0 THEN << >> ELSE Append(natBits(n \div 2), n % 2)

\* v < 2^n as n bits, most significant first.
bitsOf(v, n) == [i \in 1..n |-> (v \div Pow2(n - i)) % 2]

\* The next n bits of the binary expansion of 0.f, and what is left.
RECURSIVE fracBits(_, _)
fracBits(f, n) ==
    IF n <= ChunkBits
    THEN LET r == mulDigits(f, Pow2(n))
         IN  [bits |-> bitsOf(r.carry, n), rest |-> r.digits]
    ELSE LET r == mulDigits(f, Pow2(ChunkBits))
             s == fracBits(r.digits, n - ChunkBits)
         IN  [bits |-> bitsOf(r.carry, ChunkBits) \o s.bits,
              rest |-> s.rest]

\* The number of zero bits 0.f (not zero) starts with.
RECURSIVE leadingZeroBits(_)
leadingZeroBits(f) ==
    LET r == mulDigits(f, Pow2(ChunkBits))
    IN  IF r.carry = 0 THEN ChunkBits + leadingZeroBits(r.digits)
        ELSE ChunkBits - Len(natBits(r.carry))

ZeroBits == [i \in 1..MantissaBits |-> 0]

\* A double is the exponent of its leading bit and its 53 significant
\* bits; zero has no leading bit.
DoubleZero == [zero |-> TRUE, exp |-> 0, bits |-> ZeroBits]

\* The first 53 significant bits of the decimal w.f and the fraction left
\* behind them: the decimal cut to a double, not rounded.  The whole part
\* is below 2^31.
truncated(w, f) ==
    IF w = 0 /\ isZero(f)
    THEN [zero |-> TRUE, exp |-> 0, bits |-> ZeroBits, rest |-> f]
    ELSE IF w > 0
    THEN LET ib == natBits(w)
             fb == fracBits(f, MantissaBits - Len(ib))
         IN  [zero |-> FALSE, exp |-> Len(ib) - 1,
              bits |-> ib \o fb.bits, rest |-> fb.rest]
    ELSE LET z  == leadingZeroBits(f)
             fb == fracBits(fracBits(f, z).rest, MantissaBits)
         IN  [zero |-> FALSE, exp |-> 0 - (z + 1),
              bits |-> fb.bits, rest |-> fb.rest]

RECURSIVE incrementBits(_)
incrementBits(bs) ==
    IF bs = << >> THEN << >>
    ELSE IF bs[Len(bs)] = 0 THEN [bs EXCEPT ![Len(bs)] = 1]
    ELSE Append(incrementBits(SubSeq(bs, 1, Len(bs) - 1)), 0)

\* parseFloat(s) for a decimal string s: the double nearest to the value
\* of s, a tie going to the even significand.
parseFloat(s) ==
    LET t      == truncated(DigitsValue(s.whole), s.frac)
        next   == mulDigits(t.rest, 2)
        guard  == next.carry
        sticky == ~isZero(next.digits)
        up     == guard = 1 /\ (sticky \/ t.bits[MantissaBits] = 1)
    IN  IF t.zero THEN DoubleZero
        ELSE IF ~up THEN [zero |-> FALSE, exp |-> t.exp, bits |-> t.bits]
        ELSE IF \A i \in 1..MantissaBits : t.bits[i] = 1
        THEN [zero |-> FALSE, exp |-> t.exp + 1,
              bits |-> [i \in 1..MantissaBits |-> IF i = 1 THEN 1 ELSE 0]]
        ELSE [zero |-> FALSE, exp |-> t.exp, bits |-> incrementBits(t.bits)]

\* Config amounts, as the strings of a route config.
ConvAmounts ==
    { Amt(0, << 0, 1 >>), Amt(0, << 5 >>), Amt(1, << >>), Amt(0, << 1 >>),
      Amt(0, << 3 >>), Amt(2, << 5 >>), Amt(123, << 4, 5, 6, 7, 8, 9 >>),
      Amt(0, << 0, 0, 0, 0, 0, 1 >>), Amt(1000000, << >>), Amt(0, << >>),
      Amt(0, << 9, 9, 9, 9, 9, 9 >>), Amt(10, << >>), Amt(0, << 2, 5 >>),
      Amt(0, << 5, 0, 0, 0, 0, 0, 0, 0, 0, 0, 0, 0, 0, 0, 0, 0, 0, 2 >>),
      Amt(0, << 5, 0, 0, 0, 0, 0, 0, 0, 0, 0, 0, 0, 0, 0, 0, 0, 0, 1 >>),
      Amt(0, << 0, 0, 0, 0, 0, 0, 0, 0, 0, 0, 0, 0, 0, 0, 0, 0, 0, 1 >>),
      Amt(1, << 0, 0, 0, 0, 0, 0, 0, 0, 0, 0, 0, 0, 0, 0, 0, 0, 0, 1 >>),
      Amt(0, << 1, 2, 3, 4, 5, 6, 7, 8, 9, 0, 1, 2, 3, 4, 5, 6, 7, 9 >>) }

\* decimals() of the tokens: whole units, USDC on Base, USDT on BNB Chain.
ConvDecimals == {0, 6, 18}

NoConv == [st |-> "idle", amount |-> NoAmount, d |-> 0, atomic |-> << 0 >>,
           formatted |-> [whole |-> << 0 >>, frac |-> << >>],
           result |-> DoubleZero]

\* The payee's toAtomicUnits(amount, asset, network), decimals read as d:
\* maxAmountRequired, or the throw of parseUnits.
ConvToAtomicUnits(a, d) ==
    /\ conv.st = "idle"
    /\ LET m == toAtomicString(a, d)
       IN  conv' = [conv EXCEPT !.st = IF m.ok THEN "atomic" ELSE "thrown",
                                !.amount = a, !.d = d, !.atomic = m.value]
    /\ UNCHANGED << handshake, xclient, script, payeeVars, payerVars,
                    clientVars >>

\* The payer: ethers.formatUnits(requirements.maxAmountRequired, decimals).
ConvFormatUnits ==
    /\ conv.st = "atomic"
    /\ conv' = [conv EXCEPT !.st = "formatted",
                            !.formatted = formatUnits(conv.atomic, conv.d)]
    /\ UNCHANGED << handshake, xclient, script, payeeVars, payerVars,
                    clientVars >>

\* The payer: amount = parseFloat(...), the number compared with maxAmount.
ConvParseFloat ==
    /\ conv.st = "formatted"
    /\ conv' = [conv EXCEPT !.st = "number",
                            !.result = parseFloat(conv.formatted)]
    /\ UNCHANGED << handshake, xclient, script, payeeVars, payerVars,
                    clientVars >>

ConvNext ==
    \/ \E a \in ConvAmounts, d \in ConvDecimals : ConvToAtomicUnits(a, d)
    \/ ConvFormatUnits
    \/ ConvParseFloat

SdkInit ==
    /\ handshake = NoHandshake
    /\ xclient = NoClient
    /\ script = NoScript
    /\ conv = NoConv

\* The payee process: the payer side does not run.
PayeeSpecInit == PayeeInit /\ PayerInit /\ ClientInit /\ SdkInit

PayeeSpec == PayeeSpecInit /\ [][PayeeNext]_vars

\* The payer process: the payee side does not run.
PayerSpecInit ==
    /\ PayerInit /\ PayeeInit /\ ClientInit /\ SdkInit
    /\ adapter = "express" /\ routes = << >>

PayerSpec == PayerSpecInit /\ [][PayerNext]_vars

\* The payer process using a wrapped axios instance.
AxiosSpecInit ==
    /\ PayerInit /\ PayeeInit /\ ClientInit /\ SdkInit
    /\ adapter = "hono" /\ routes = << >>

AxiosSpec == AxiosSpecInit /\ [][AxiosNext]_vars

\* The sites that build an authorization, under an advancing clock.
ValiditySpecInit == PayerSpecInit

ValiditySpec == ValiditySpecInit /\ [][ValidityNext]_vars

\* A process that made itself an X402Client and calls pay() on it.
ClientSpecInit ==
    /\ PayerInit /\ PayeeInit /\ ClientInit
    /\ adapter = "express" /\ routes = << >>
    /\ handshake = NoHandshake
    /\ script = NoScript
    /\ conv = NoConv
    /\ xclient \in { NewClient(n) : n \in NETWORKS }

ClientSpec == ClientSpecInit /\ [][ClientNext]_vars

\* The payee process under fairness: an RPC read that was issued settles,
\* a settled Promise.all is continued, and the timer armed by settlePayment
\* fires unless it was cleared.  Nothing is assumed of the facilitator or
\* of the application's handler.
PayeeFairness ==
    /\ WF_vars(\E ok \in BOOLEAN : BuildDecimalsReturn(ok))
    /\ WF_vars(\E n \in BOOLEAN, v \in BOOLEAN : BuildMetadataReturn(n, v))
    /\ WF_vars(BuildFinish)
    /\ WF_vars(\E ok \in BOOLEAN : SettleDecimalsReturn(ok))
    /\ WF_vars(SettleTimeout)

\* The fair payee process is an express or hono application, the two
\* shapes of a request's end: next() not awaited, and next() awaited
\* inside the try block.
PayeeFairSpecInit == PayeeSpecInit /\ adapter \in {"express", "hono"}

PayeeFairSpec ==
    PayeeFairSpecInit /\ [][PayeeNext]_vars /\ PayeeFairness

\* An amount converted by the payee and converted back by the payer.
ConvSpecInit == PayerSpecInit

ConvSpec == ConvSpecInit /\ [][ConvNext]_vars

\* Every SDK operation that posts to /settle: a process serving paid
\* routes, or one calling pay() on a client.
SettleNext == PayeeNext \/ ClientNext

SettleSpecInit == PayeeSpecInit \/ ClientSpecInit

SettleSpec == SettleSpecInit /\ [][SettleNext]_vars

\* One run of the signer script after another.
ScriptSpecInit == PayerSpecInit

ScriptSpec == ScriptSpecInit /\ [][ScriptNext]_vars

\* The payee issuing requirements and the payer paying them.
HandshakeSpecInit == PayerSpecInit

HandshakeSpec == HandshakeSpecInit /\ [][HandshakeNext]_vars

\* ------------------------------------------------------------------------
\* Payer properties (PayerSpec)
\* ------------------------------------------------------------------------

\* C1: one call of fetchWithPayment invokes the wrapped fetch at most twice,
\* the original attempt and at most one retry carrying the X-PAYMENT header,
\* whatever the server answers.
C1_AtMostTwoAttempts ==
    /\ pobs.fetchCalls <= 2
    /\ pobs.retryWithHeader <= 1
    /\ pobs.fetchCalls = (IF ppc = "idle" THEN 0 ELSE 1) + pobs.retryWithHeader

\* A server that answered 402 to the original attempt and to the retry.
C1_Witness ==
    /\ ppc = "done"
    /\ first.status = 402
    /\ pret = 402
    /\ pobs.fetchCalls = 2
    /\ pobs.retryWithHeader = 1

\* C2: for every 402 response whose maxAmountRequired, converted with the
\* decimals of the requirement's asset (those of the token on the signer's
\* chain), is greater than the maxAmount ceiling, the call fails with an
\* error naming the requested and the ceiling amounts, signTypedData is
\* never called and no second attempt is made.
C2_CeilingBlocksPayment ==
    LET q       == requirementsOf(first.shape, first.requirements)
        d       == ChainDecimals(call.network, q.asset)
        ceiling == maxAmountOf(call.maxAmount)
    IN  (/\ first.status = 402
         /\ used # << >>
         /\ exceeds(q.maxAmountRequired, d, ceiling))
        => /\ ppc = "done"
           /\ perr.msg = "Payment amount exceeds maxAmount"
           /\ perr.amount[1] = q.maxAmountRequired
           /\ perr.maxAmount = ceiling
           /\ pobs.signCalls = 0
           /\ pobs.fetchCalls = 1

\* C11: with a wrapped axios instance and a server that answers 402 to
\* every request, one logical request issues at most two HTTP attempts.
C11_AxiosAtMostTwoAttempts ==
    /\ pobs.fetchCalls <= 2
    /\ pobs.signCalls <= 1

\* C12: when the first response is not a 402, fetchWithPayment returns it
\* after exactly one attempt: no decimals read, no cache write, no
\* facilitator contact, no signer call, no error.
C12_NonPaymentPassesThrough ==
    first.status \notin {0, 402} =>
       /\ ppc = "done"
       /\ pret = first.status
       /\ perr = NoErr
       /\ pobs = [NoPobs EXCEPT !.fetchCalls = 1]
       /\ used = << >>
       /\ build = NoBuild
       /\ signed = NoSigned

\* A 500 answer with a payment-shaped body, returned as it is.
C12_Witness ==
    /\ ppc = "done"
    /\ first.status = 500
    /\ first.shape = "wrapped"
    /\ pret = 500
    /\ pobs.fetchCalls = 1

\* C13: from a 402 body {x402Version: 1, accepts: [R]} the payer takes its
\* requirements from R: the ceiling check runs on R.asset and
\* R.maxAmountRequired and the signed message has to = R.payTo and
\* value = R.maxAmountRequired.
C13_PayerReadsAccepts ==
    (first.status = 402 /\ first.shape = "accepts") =>
       /\ requirementsOf(first.shape, first.requirements) = first.requirements
       /\ ppc = "done" => used # << >>
       /\ signed # NoSigned =>
             /\ signed.message.to = first.requirements.payTo
             /\ signed.message.value = first.requirements.maxAmountRequired

\* C16: on the Proxied path the message handed to the signer carries the
\* nonce getNonce(user, token) returns to this build, read once in the
\* build; nothing is kept or incremented locally.
C16_NonceReadEachBuild ==
    [][(ppc = "nonce" /\ ppc' = "sign") =>
          /\ signed'.primaryType = "ERC20Payment"
          /\ signed'.message.nonce = stargateNonce
          /\ pobs.nonceReads = 1]_vars

\* A second Proxied build for the same (network, token), signing the nonce
\* the proxy holds.
C16_Witness ==
    /\ ppc = "sign"
    /\ << call.network, "USDC" >> \in probeLog.again
    /\ signed.primaryType = "ERC20Payment"
    /\ signed.message.nonce = stargateNonce
    /\ pobs.nonceReads = 1

\* C18: a Native token is signed as TransferWithAuthorization under the
\* token's domain, a Proxied token as ERC20Payment (with the token field)
\* under the proxy's domain {Megalith, 1, chainId, proxy}; never a mixture.
C18_SchemeDispatch ==
    signed # NoSigned =>
       LET q == requirementsOf(first.shape, first.requirements) IN
       IF build.probe = "ok"
       THEN /\ signed.primaryType = "TransferWithAuthorization"
            /\ signed.domain.name = ChainName(call.network, q.asset)
            /\ signed.domain.version
                  \in {ChainVersion(call.network, q.asset), "1"}
            /\ signed.domain.chainId = ChainId(call.network)
            /\ signed.domain.verifyingContract = q.asset
            /\ signed.message.token = Undefined
       ELSE /\ signed.primaryType = "ERC20Payment"
            /\ signed.domain.name = "Megalith"
            /\ signed.domain.version = "1"
            /\ signed.domain.chainId = ChainId(call.network)
            /\ signed.domain.verifyingContract = StargateOf(call.network)
            /\ signed.message.token = q.asset

\* A Proxied token signed and the request retried.
C18_Witness ==
    /\ ppc = "fetch2"
    /\ build.probe = "revert"
    /\ signed.primaryType = "ERC20Payment"

\* C19: the probe never fails the build: a successful authorizationState
\* read classifies the token Native, any failure of it classifies it
\* Proxied and the build goes on to the proxy path.
C19_ProbeNeverFails ==
    build.probe # "none" =>
       /\ build.isEIP3009 = (build.probe = "ok")
       /\ build.probe # "ok" =>
             \/ ppc \in {"stargate", "allowance", "nonce", "sign", "fetch2"}
             \/ /\ ppc = "done"
                /\ perr.msg \in {"", "Failed to fetch Stargate",
                                  "Insufficient allowance",
                                  "could not read allowance",
                                  "could not read nonce", "signer refused"}

\* A probe that failed with an RPC error, classified Proxied, the build at
\* its next step.
C19_Witness ==
    /\ build.probe = "rpcError"
    /\ ~build.isEIP3009
    /\ ppc = "stargate"

\* C20: within a process the classification of a (network, token) pair is
\* probed at most once.
C20_ProbedAtMostOnce == probeLog.again = {}

\* ------------------------------------------------------------------------
\* Payee properties (PayeeSpec)
\* ------------------------------------------------------------------------

\* The request being served is on a payment route: any request to a handler
\* wrapped by x402Next, or an express / hono request whose path matches one
\* of the patterns.
onPaymentRoute ==
    /\ pc # "idle"
    /\ adapter \in {"express", "hono"} =>
          \E i \in DOMAIN routes : RegexTest(routes[i].pattern, req.path)

undecodable == req.header.kind \in {"badBase64", "badJson", "missingFields"}

\* C3: on a payment route the downstream handler is invoked only after the
\* /settle call for the request's envelope returned its result; a request
\* with an absent or undecodable header, or with a rejected, timed-out or
\* transport-failed settlement, never reaches the handler.
C3_HandlerOnlyAfterSettle ==
    onPaymentRoute =>
       /\ obs.handlerCalls <= 1
       /\ obs.handlerCalls = 1 =>
             /\ req.header.kind = "valid"
             /\ obs.settleCalls = 1
             /\ settle.outcome = "ok"
             /\ settle.timer = "cleared"
       /\ (\/ req.header.kind # "valid"
           \/ settle.outcome \in {"rejected", "timeout", "transport"})
          => obs.handlerCalls = 0

\* A paid request whose settlement succeeded reached the handler.
C3_Witness ==
    /\ onPaymentRoute
    /\ pc = "done"
    /\ settle.outcome = "ok"
    /\ settle.success
    /\ obs.handlerCalls = 1

\* C4: a Settlement Result with success = false is a failed settlement: the
\* handler is not invoked and the response is 402 with the requirements and
\* an error annotation.
C4_UnsuccessfulResultIsFailure ==
    (onPaymentRoute /\ settle.outcome = "ok" /\ ~settle.success) =>
       /\ obs.handlerCalls = 0
       /\ pc = "done" =>
             /\ res.status = 402
             /\ res.body.shape = "requirements"
             /\ res.body.error # ""

\* A config with amount, asset and network, on a supported network, whose
\* amount has no more fractional digits than the token has decimals.
validConfig(c) ==
    /\ c.amount.defined
    /\ c.asset # Undefined
    /\ c.network \in NETWORKS
    /\ parseUnits(c.amount, ChainDecimals(c.network, c.asset)).ok

\* C5 as stated: a request on a payment route with no X-PAYMENT header and
\* a valid config gets exactly one response, 402 with the requirements; the
\* facilitator is not called and the handler is not invoked.
C5_NoHeaderIs402 ==
    (onPaymentRoute /\ req.header.kind = "none" /\ validConfig(req.config))
    => /\ obs.settleCalls = 0
       /\ obs.handlerCalls = 0
       /\ obs.responses = IF pc = "done" THEN 1 ELSE 0
       /\ pc = "done" =>
             /\ res.status = 402
             /\ res.body.shape = "requirements"

\* C5 amended: such a request gets exactly one response, the facilitator is
\* not called and the handler is not invoked; the response is 402 with the
\* requirements when the decimals of the asset are known (cached or read),
\* and 500 with the error of the read when the decimals() read failed.
C5_NoHeaderIs402Or500 ==
    (onPaymentRoute /\ req.header.kind = "none" /\ validConfig(req.config))
    => /\ obs.settleCalls = 0
       /\ obs.handlerCalls = 0
       /\ obs.responses = IF pc = "done" THEN 1 ELSE 0
       /\ pc = "done" =>
             IF cacheKey(req.config) \in DOMAIN decimalsCache
             THEN /\ res.status = 402
                  /\ res.body.shape = "requirements"
                  /\ res.body.x402Version = 1
                  /\ Len(res.body.accepts) = 1
                  /\ res.body.error = ""
             ELSE /\ res.status = 500
                  /\ res.body = ErrBody("Failed to fetch decimals for token")

\* A request without header answered 402 with the requirements.
C5_Witness ==
    /\ onPaymentRoute
    /\ req.header.kind = "none"
    /\ validConfig(req.config)
    /\ pc = "done"
    /\ obs.responses = 1
    /\ res.status = 402

\* C6: when the facilitator rejects /settle (non-2xx, JSON body) the payee
\* sends exactly one response, 402 and never 500, whose body has the
\* requirements shape and an error string carrying the facilitator's reason.
C6_RejectedSettlementIs402 ==
    settle.outcome = "rejected" =>
       /\ obs.handlerCalls = 0
       /\ obs.responses = IF pc = "done" THEN 1 ELSE 0
       /\ pc = "done" =>
             /\ res.status = 402
             /\ res.body.shape = "requirements"
             /\ res.body.x402Version = 1
             /\ Len(res.body.accepts) = 1
             /\ res.body.error # ""
             /\ settle.reason # Undefined => res.body.error = settle.reason

\* A rejection with reason "nonce already used" answered 402.
C6_Witness ==
    /\ pc = "done"
    /\ settle.outcome = "rejected"
    /\ settle.reason = "nonce already used"
    /\ res.status = 402
    /\ res.body.error = "nonce already used"

\* C7: a header that is present but cannot be decoded is answered 400 with
\* the decode error, in the step the request arrives in; the facilitator is
\* not called and the handler is not invoked.
C7_UndecodableHeaderIs400 ==
    (onPaymentRoute /\ undecodable) =>
       /\ pc = "done"
       /\ obs.responses = 1
       /\ res.status = 400
       /\ res.body = ErrBody(parsePaymentHeader(req.header).error)
       /\ obs.settleCalls = 0
       /\ obs.handlerCalls = 0
       /\ obs.rpcReads = 0

\* A header of malformed JSON answered 400.
C7_Witness ==
    /\ onPaymentRoute
    /\ req.header.kind = "badJson"
    /\ validConfig(req.config)
    /\ res.status = 400

lacksField(c) ==
    \/ ~c.amount.defined
    \/ c.asset = Undefined
    \/ c.network = Undefined

ConfigErrors ==
    { "amount is required in route config",
      "asset (token address) is required in route config",
      "network is required in route config" }

\* C8 as stated: when the config of the matched route lacks amount, asset
\* or network, every request to the route, with or without a payment
\* header, is answered 500 with the configuration error; never 402, the
\* facilitator is never called and the handler never invoked.
C8_BadConfigIs500 ==
    (onPaymentRoute /\ lacksField(req.config)) =>
       /\ obs.settleCalls = 0
       /\ obs.handlerCalls = 0
       /\ obs.responses = IF pc = "done" THEN 1 ELSE 0
       /\ pc = "done" =>
             /\ res.status = 500
             /\ res.body.shape = "error"
             /\ res.body.error \in ConfigErrors

\* C8 amended: such a request is answered 500 with the configuration error
\* when it has no header or a decodable one, and 400 with the decode error
\* when its header cannot be decoded; never 402, the facilitator is never
\* called and the handler never invoked.
C8_BadConfigIs500Or400 ==
    (onPaymentRoute /\ lacksField(req.config)) =>
       /\ obs.settleCalls = 0
       /\ obs.handlerCalls = 0
       /\ obs.responses = IF pc = "done" THEN 1 ELSE 0
       /\ pc = "done" =>
             /\ res.body.shape = "error"
             /\ IF undecodable
                THEN /\ res.status = 400
                     /\ res.body.error = parsePaymentHeader(req.header).error
                ELSE /\ res.status = 500
                     /\ res.body.error \in ConfigErrors

\* A request with a decodable header on a route whose config has no
\* network, answered 500.
C8_Witness ==
    /\ onPaymentRoute
    /\ req.config.network = Undefined
    /\ req.header.kind = "valid"
    /\ pc = "done"
    /\ res.status = 500
    /\ res.body.error = "network is required in route config"

\* C9: for a path that matches no pattern, x402Express and x402Hono call
\* next exactly once and do nothing else: no response, no header, no cache
\* read or write, no RPC read and no facilitator call.
C9_NoMatchPassesThrough ==
    (/\ adapter \in {"express", "hono"}
     /\ pc # "idle"
     /\ \A i \in DOMAIN routes : ~RegexTest(routes[i].pattern, req.path))
    => /\ pc = "done"
       /\ obs = [NoObs EXCEPT !.handlerCalls = 1]
       /\ res = NoRes
       /\ settle = NoSettle

\* A hono request with a payment header on a path outside every pattern.
C9_Witness ==
    /\ adapter = "hono"
    /\ routes # << >>
    /\ pc = "done"
    /\ req.header.kind = "valid"
    /\ \A i \in DOMAIN routes : ~RegexTest(routes[i].pattern, req.path)
    /\ obs.handlerCalls = 1

matching == { i \in DOMAIN routes : RegexTest(routes[i].pattern, req.path) }

\* C10: when the path matches several patterns, the config used for the
\* 402 requirements and for the settlement is that of the first matching
\* pattern in the declaration order of the routes object.
C10_FirstMatchWins ==
    (adapter \in {"express", "hono"} /\ pc # "idle" /\ matching # {}) =>
       LET f == CHOOSE i \in matching : \A j \in matching : i <= j
           c == routes[f].config
           m == parseUnits(c.amount, ChainDecimals(c.network, c.asset)).value
       IN  /\ req.config = c
           /\ res.status = 402 =>
                 /\ res.body.accepts[1].asset = c.asset
                 /\ res.body.accepts[1].network = c.network
                 /\ res.body.accepts[1].payTo = c.payTo
                 /\ res.body.accepts[1].maxAmountRequired = m
           /\ obs.settleCalls > 0 =>
                 /\ settle.payload.paymentRequirements.asset = c.asset
                 /\ settle.payload.paymentRequirements.maxAmountRequired = m

\* A path under two patterns whose settlement was rejected: the config was
\* used for the settlement and for the 402.
C10_Witness ==
    /\ Cardinality(matching) >= 2
    /\ pc = "done"
    /\ obs.settleCalls = 1
    /\ settle.outcome = "rejected"
    /\ res.status = 402

\* C14: when the timer fires before the facilitator answered, settlePayment
\* cancels the request in flight through its AbortController and throws the
\* timed-out error; it is no longer waiting, and the handler is not invoked.
C14_TimeoutCancels ==
    settle.outcome = "timeout" =>
       /\ settle.timer = "fired"
       /\ ~settle.inflight
       /\ settle.error = TimeoutError
       /\ pc \in {"build", "done"}
       /\ pc = "build" => errAnn = TimeoutError.message
       /\ pc = "done" => res.body.error = TimeoutError.message
       /\ obs.handlerCalls = 0

\* A settlement that timed out, answered 402 with the timed-out error.
C14_Witness ==
    /\ settle.outcome = "timeout"
    /\ pc = "done"
    /\ res.status = 402
    /\ res.body.error = TimeoutError.message

\* C15: a timeout, a rejection and a transport failure of /settle each
\* produce a different error: the error of a rejection is never that of a
\* timeout or of a transport failure, and conversely.
C15_FailureKindsDistinct ==
    /\ settle.outcome = "timeout" =>
          settle.error = TimeoutError /\ settle.error # TransportError
    /\ settle.outcome = "transport" =>
          settle.error = TransportError /\ settle.error # TimeoutError
    /\ settle.outcome = "rejected" =>
          settle.error \notin {TimeoutError, TransportError}

\* C17: every authorization built, by createPayment of payer.js in either
\* scheme and by both builders of X402Client, is valid from 60 seconds
\* before the clock value read at creation until 3600 seconds after it.
C17_ValidityWindow ==
    window.site # "none" =>
       /\ window.validAfter = window.now - 60
       /\ window.validBefore = window.now + 3600
       /\ window.now = unixNow(clk) =>
             window.validAfter < unixNow(clk)
             /\ unixNow(clk) < window.validBefore

\* An authorization of the proxied scheme built by createPayment after the
\* clock left its first second.
C17_Witness ==
    /\ window.site = "createPayment:stargate"
    /\ window.now > ClockBase
    /\ window.validAfter = window.now - 60
    /\ window.validBefore = window.now + 3600

\* C22: for a config on a known network getTokenMetadata does not fail: a
\* failed name() read gives "Unknown Token", a failed version() read gives
\* "1", each whatever the other read did, and once the amount is converted
\* the requirements go out with status 402 carrying these two values.
C22_MetadataNeverFails ==
    [][/\ (pc' = "build" /\ req'.config.network \in NETWORKS) =>
             /\ metaRead'.st # "fail"
             /\ (metaRead'.st = "ok" /\ metaRead'.reads # << >>) =>
                   /\ metaRead'.val.name =
                         IF metaRead'.reads[1]
                         THEN ChainName(req'.config.network,
                                        req'.config.asset)
                         ELSE "Unknown Token"
                   /\ metaRead'.val.version =
                         IF metaRead'.reads[2]
                         THEN ChainVersion(req'.config.network,
                                           req'.config.asset)
                         ELSE "1"
       /\ (/\ pc = "build" /\ pc' = "done"
           /\ req.config.network \in NETWORKS
           /\ decRead.st = "ok"
           /\ parseUnits(req.config.amount, decRead.val).ok) =>
             /\ res'.status = 402
             /\ res'.body.accepts[1].extra = metaRead.val]_vars

\* Requirements sent with 402 after name() failed and version() answered.
C22_Witness ==
    /\ pc = "done"
    /\ res.status = 402
    /\ res.body.shape = "requirements"
    /\ res.body.accepts[1].extra =
          [name |-> "Unknown Token", version |-> "2"]

\* C23: an entry of the payee's decimals cache or token metadata cache,
\* once written, keeps its value in every later step of the process.
C23_CacheEntriesNeverChange ==
    [][/\ \A k \in DOMAIN decimalsCache :
             k \in DOMAIN decimalsCache'
             /\ decimalsCache'[k] = decimalsCache[k]
       /\ \A k \in DOMAIN tokenMetadataCache :
             k \in DOMAIN tokenMetadataCache'
             /\ tokenMetadataCache'[k] = tokenMetadataCache[k]]_vars

\* amount x 10^d for an amount of at most d significant fractional digits.
RECURSIVE fracTimesPow10(_, _, _)
fracTimesPow10(f, d, i) ==
    IF i > Len(f) \/ i > d THEN 0
    ELSE f[i] * Pow10(d - i) + fracTimesPow10(f, d, i + 1)

amountTimesPow10(a, d) == a.whole * Pow10(d) + fracTimesPow10(a.frac, d, 1)

\* C25: the requirements sent carry maxAmountRequired = amount x 10^d with
\* d the decimals of config.asset on config.network as looked up (read from
\* the chain or cached from such a read); a build whose decimals lookup
\* failed sends no requirements.
C25_ExactAtomicAmount ==
    [][/\ (pc' = "done" /\ res'.body.shape = "requirements") =>
             LET c == req'.config
                 d == ChainDecimals(c.network, c.asset)
             IN  /\ c.network \in NETWORKS
                 /\ cacheKey(c) \in DOMAIN decimalsCache'
                 /\ decimalsCache'[cacheKey(c)] = d
                 /\ res'.body.accepts[1].maxAmountRequired =
                       amountTimesPow10(c.amount, d)
       /\ (pc = "build" /\ decRead.st = "fail" /\ pc' = "done") =>
             /\ res'.status = 500
             /\ res'.body.shape = "error"]_vars

\* Requirements for 0.01 of a 6-decimals token: 10000.
C25_Witness ==
    /\ pc = "done"
    /\ res.status = 402
    /\ res.body.shape = "requirements"
    /\ req.config = CfgPremium
    /\ decimalsCache[cacheKey(req.config)] = 6
    /\ res.body.accepts[1].maxAmountRequired = 10000

\* C24: the decimals the ceiling check converts with are those of the
\* requirement's token on the network of the signer making the call, never
\* a value cached through a signer on another network.
C24_DecimalsOfSignerNetwork ==
    LET q == requirementsOf(first.shape, first.requirements)
    IN  (first.status = 402 /\ used # << >>) =>
           used[1] = ChainDecimals(call.network, q.asset)

\* C21: when the payer signs for a requirement the payee issued for a
\* Native token, the name and version of its signing domain are the
\* extra.name and extra.version of that requirement.
C21_ExtraMatchesDomain ==
    handshake.st = "paid" =>
       /\ handshake.extra.name = handshake.typed.domain.name
       /\ handshake.extra.version = handshake.typed.domain.version

\* C30: the envelope the signer writes has scheme "eip3009" when the token
\* was detected as EIP-3009 and "exact" when it is a standard ERC-20 paid
\* through the Stargate proxy.
C30_SchemeFollowsTokenType ==
    (script.pc = "done" /\ script.exit = 0) =>
       script.x402Payment.scheme =
          IF script.isEIP3009 THEN "eip3009" ELSE "exact"

\* C29: once balanceOf returned a balance below the value to pay,
\* createPayment has failed with the "Insufficient balance" error: no
\* probe, no Stargate lookup, no nonce read and no signature were
\* requested, and pay() made no /settle call.
C29_InsufficientBalanceStopsPay ==
    (xclient.balance # << >> /\ bigLess(xclient.balance[1], xclient.value))
    => /\ xclient.pc = "done"
       /\ xclient.err = "Insufficient balance"
       /\ xclient.obs.probes = 0
       /\ xclient.obs.contractsCalls = 0
       /\ xclient.obs.nonceReads = 0
       /\ xclient.obs.signCalls = 0
       /\ xclient.obs.settleCalls = 0
       /\ xclient.settled = "none"

\* A pay() of 1.5 units of a token whose decimals() read failed (18
\* assumed), with a wallet holding 1500000 base units.
C29_Witness ==
    /\ xclient.pc = "done"
    /\ xclient.err = "Insufficient balance"
    /\ xclient.decimals = 18
    /\ xclient.balance = << Big(15, 5) >>
    /\ xclient.value = Big(15, 17)

\* C27: an inbound request carrying a payment causes at most one POST
\* /settle and so does a call of X402Client.pay; after an attempt that was
\* rejected, failed in transport or timed out exactly one was made, and
\* pay() has ended.
C27_NoResubmission ==
    /\ obs.settleCalls <= 1
    /\ settle.outcome \in {"rejected", "badBody", "transport", "timeout"}
          => obs.settleCalls = 1
    /\ xclient.obs.settleCalls <= 1
    /\ xclient.settled \in {"rejected", "badBody", "transport"}
          => xclient.pc = "done" /\ xclient.obs.settleCalls = 1

\* A pay() whose only /settle attempt was rejected.
C27_Witness ==
    /\ xclient.pc = "done"
    /\ xclient.settled = "rejected"
    /\ xclient.err = "Settlement failed"
    /\ xclient.obs.settleCalls = 1

\* The request in service has invoked the handler, or has been answered
\* with 402, 400 or 500.
RequestEnded ==
    \/ obs.handlerCalls >= 1
    \/ pc = "done" /\ res.status \in {400, 402, 500}

\* The request was answered with 402, 400 or 500 after it had invoked the
\* handler.
HandlerAndErrorStatus ==
    /\ pc = "done"
    /\ obs.handlerCalls >= 1
    /\ res.status \in {400, 402, 500}

doubleLess(r, t) ==
    IF t.zero THEN FALSE
    ELSE IF r.zero THEN TRUE
    ELSE \/ r.exp < t.exp
         \/ /\ r.exp = t.exp
            /\ \E i \in 1..MantissaBits :
                  /\ r.bits[i] < t.bits[i]
                  /\ \A j \in 1..(i - 1) : r.bits[j] = t.bits[j]

doubleEqual(r, t) ==
    /\ r.zero = t.zero
    /\ r.zero \/ (r.exp = t.exp /\ r.bits = t.bits)

\* The double r is at most, at least, the decimal w.f: w.f cut to 53 bits
\* is the largest double not above it.
doubleAtMost(r, w, f) ==
    LET t == truncated(w, f) IN doubleLess(r, t) \/ doubleEqual(r, t)

doubleAtLeast(r, w, f) ==
    LET t == truncated(w, f)
    IN  doubleLess(t, r) \/ (doubleEqual(r, t) /\ isZero(t.rest))

\* The digits of n + 1 and of n - 1 (n > 0), in the length of those of n.
RECURSIVE succDigits(_)
succDigits(ds) ==
    IF ds = << >> THEN << >>
    ELSE IF ds[Len(ds)] < 9 THEN [ds EXCEPT ![Len(ds)] = ds[Len(ds)] + 1]
    ELSE Append(succDigits(SubSeq(ds, 1, Len(ds) - 1)), 0)

RECURSIVE predDigits(_)
predDigits(ds) ==
    IF ds = << >> THEN << >>
    ELSE IF ds[Len(ds)] > 0 THEN [ds EXCEPT ![Len(ds)] = ds[Len(ds)] - 1]
    ELSE Append(predDigits(SubSeq(ds, 1, Len(ds) - 1)), 9)

\* The amount a in units of 10^-d, as digits with a spare leading zero.
scaledDigits(a, d) ==
    << 0 >> \o natDigits(a.whole) \o SubSeq(PadFrac(a.frac, d), 1, d)

\* The double r is within one unit of 10^-d of the amount a.
withinOneUnit(r, a, d) ==
    LET ds == scaledDigits(a, d)
        n  == Len(ds)
        lo == predDigits(ds)
        hi == succDigits(ds)
    IN  /\ \/ isZero(ds)
           \/ doubleAtLeast(r, DigitsValue(SubSeq(lo, 1, n - d)),
                            SubSeq(lo, n - d + 1, n))
        /\ doubleAtMost(r, DigitsValue(SubSeq(hi, 1, n - d)),
                        SubSeq(hi, n - d + 1, n))

\* C26: for every amount of at most d fractional digits, the number the
\* payer obtains from the payee's atomic amount is the original decimal
\* value, to within one unit of the token's precision (10^-d).
C26_RoundTripYieldsOriginal ==
    conv.st = "number" => withinOneUnit(conv.result, conv.amount, conv.d)

\* The same, for the tokens of at most six decimals.
RoundTripUpToSixDecimals ==
    (conv.st = "number" /\ conv.d <= 6)
        => withinOneUnit(conv.result, conv.amount, conv.d)

\* C31: one call of fetchWithPayment asks the signer for at most one
\* signature; the retry is issued only by the step in which that signature
\* arrives; a call that ends with an error after the first 402 made one
\* HTTP attempt and no retry.
C31_OneSignatureThenRetry ==
    /\ [](pobs.signCalls <= 1)
    /\ []((ppc = "done" /\ perr # NoErr)
             => /\ first.status = 402
                /\ pobs.fetchCalls = 1
                /\ pobs.retryWithHeader = 0)
    /\ [][pobs'.retryWithHeader > pobs.retryWithHeader
             => /\ ppc = "sign"
                /\ pobs.signCalls = 1
                /\ pobs'.signCalls = 1
                /\ perr' = NoErr]_vars

\* The signer refused: the call ended with its error after one attempt.
C31_Witness ==
    /\ ppc = "done"
    /\ perr.msg = "signer refused"
    /\ pobs.signCalls = 1
    /\ pobs.fetchCalls = 1
    /\ pobs.retryWithHeader = 0

\* C32: for every request, in every adapter, the handler having been
\* invoked excludes a 402, 400 or 500 written by the adapter, also when the
\* handler throws.
C32_HandlerExcludesErrorResponse ==
    obs.handlerCalls >= 1 => res.status \notin {400, 402, 500}

\* C33: whenever the payee answers a request with 402 carrying an error
\* annotation, the facilitator has not executed that request's
\* authorization on-chain.
C33_ErrorAnnotationMeansUnsettled ==
    (pc = "done" /\ res.status = 402 /\ res.body.error # "")
        => ~settle.onchain

\* The fields of the requirement the payee advertises for config c on which
\* the requirements sent to /settle have to agree.
advertisedTerms(c) ==
    LET r == requirement(c,
                 parseUnits(c.amount,
                            ChainDecimals(c.network, c.asset)).value,
                 NoMeta, << >>)
    IN  [network |-> r.network, asset |-> r.asset,
         maxAmountRequired |-> r.maxAmountRequired, payTo |-> r.payTo]

\* C34: the paymentRequirements the payee posts to /settle for a request
\* agree with the requirement it advertises for the route on network,
\* asset, maxAmountRequired and payTo; nothing in them comes from the
\* payer's envelope.
C34_SettlesWhatItAdvertises ==
    settle.outcome # "none" =>
        LET sent == settle.payload.paymentRequirements
            adv  == advertisedTerms(req.config)
        IN  /\ sent.network = adv.network
            /\ sent.asset = adv.asset
            /\ sent.maxAmountRequired = adv.maxAmountRequired
            /\ "payTo" \in DOMAIN sent
            /\ sent.payTo = adv.payTo

\* The envelope names another network than the route.
SettleNetworkFromEnvelope ==
    /\ settle.outcome # "none"
    /\ settle.payload.paymentRequirements.network # req.config.network

\* The route's terms reach /settle whenever the envelope names no network,
\* payTo aside.
SettleTermsWithoutEnvelopeNetwork ==
    (/\ settle.outcome # "none"
     /\ settle.payload.paymentPayload.network = Undefined)
        => LET sent == settle.payload.paymentRequirements
               adv  == advertisedTerms(req.config)
           IN  /\ sent.network = adv.network
               /\ sent.asset = adv.asset
               /\ sent.maxAmountRequired = adv.maxAmountRequired

\* C35: fetchWithPayment signs only for requirements whose network is the
\* signer's; the envelope's network and the chainId of the signing domain
\* are the signer's.
C35_SignsOnlyForOwnNetwork ==
    pobs.signCalls >= 1 =>
        /\ requirementsOf(first.shape, first.requirements).network
              = call.network
        /\ signed.domain.chainId = ChainId(call.network)
        /\ envelope # NoEnvelope => envelope.network = call.network

\* What is signed and sent names the signer's network, whatever the
\* requirements named.
SignerNetworkInDomainAndEnvelope ==
    pobs.signCalls >= 1 =>
        /\ signed.domain.chainId = ChainId(call.network)
        /\ envelope # NoEnvelope => envelope.network = call.network

\* C36: in every envelope the payer produces, from, to, value, validAfter,
\* validBefore and nonce of the authorization are those of the signed
\* message, with from the signer's address, to = requirements.payTo and
\* value = requirements.maxAmountRequired, on the Native and on the
\* Proxied path.
C36_AuthorizationIsSignedMessage ==
    envelope # NoEnvelope =>
        LET a == envelope.authorization
            m == signed.message
            q == requirementsOf(first.shape, first.requirements)
        IN  /\ signed.primaryType
                  \in {"TransferWithAuthorization", "ERC20Payment"}
            /\ a.from = m.from /\ a.to = m.to /\ a.value = m.value
            /\ a.validAfter = m.validAfter /\ a.validBefore = m.validBefore
            /\ a.nonce = m.nonce
            /\ a.from = SignerAddress
            /\ a.to = q.payTo
            /\ a.value = q.maxAmountRequired

\* An envelope of the Proxied path, carrying the proxy's nonce, was sent
\* with the retry.
C36_Witness ==
    /\ envelope # NoEnvelope
    /\ signed.primaryType = "ERC20Payment"
    /\ envelope.authorization.nonce = stargateNonce
    /\ envelope.authorization.value = 10000
    /\ pobs.retryWithHeader = 1

\* An envelope of the Native path was sent with the retry.
NativeEnvelopeSent ==
    /\ envelope # NoEnvelope
    /\ signed.primaryType = "TransferWithAuthorization"
    /\ envelope.authorization.nonce \in RandomNonces
    /\ pobs.retryWithHeader = 1

\* C37: on the Proxied path an allowance below the value to authorize ends
\* the call with an error whose code is INSUFFICIENT_ALLOWANCE, before the
\* proxy nonce is read and before any signature is requested; no envelope
\* is produced and no retry is sent.
C37_InsufficientAllowanceStopsBuild ==
    LET q == requirementsOf(first.shape, first.requirements)
    IN  (build.allowance # NotRead /\ build.allowance < q.maxAmountRequired)
           => /\ ppc = "done"
              /\ perr.code = "INSUFFICIENT_ALLOWANCE"
              /\ pobs.nonceReads = 0
              /\ pobs.signCalls = 0
              /\ signed = NoSigned
              /\ envelope = NoEnvelope
              /\ pobs.fetchCalls = 1
              /\ pobs.retryWithHeader = 0

\* An allowance one unit short of the value ended the call.
C37_Witness ==
    /\ ppc = "done"
    /\ build.allowance = 9999
    /\ requirementsOf(first.shape, first.requirements).maxAmountRequired
          = 10000
    /\ perr.code = "INSUFFICIENT_ALLOWANCE"
    /\ pobs.nonceReads = 0

\* An allowance equal to the value lets the build read the nonce.
ExactAllowanceReadsNonce ==
    /\ ppc = "nonce"
    /\ build.allowance = 10000
    /\ requirementsOf(first.shape, first.requirements).maxAmountRequired
          = 10000
    /\ pobs.nonceReads = 1

\* The step in which a decimals() read issued by the payee fails.
DecimalsReadFails ==
    /\ decRead.st = "pending"
    /\ \/ pc = "build" /\ decRead'.st = "fail"
       \/ /\ pc = "settle_dec" /\ pc' = "build"
          /\ errAnn' = "Failed to fetch decimals for token"

\* C38: a failed decimals read leaves the payee's decimals cache as it was
\* (nothing, and no default, is stored for the key), the cache changes only
\* by storing what a successful read returned, and a later request for a
\* key the cache lacks issues the read again.
C38_FailedReadCachesNothing ==
    /\ [][DecimalsReadFails => decimalsCache' = decimalsCache]_vars
    /\ [][decimalsCache' # decimalsCache =>
             /\ decRead.st = "pending"
             /\ cacheKey(req.config) \notin DOMAIN decimalsCache
             /\ decimalsCache' =
                   (cacheKey(req.config) :>
                       ChainDecimals(req.config.network, req.config.asset))
                   @@ decimalsCache]_vars
    /\ [][(/\ pc \in {"idle", "done"}
           /\ pc' \in {"build", "settle_dec"}
           /\ configError(req'.config) = ""
           /\ req'.config.network \in NETWORKS
           /\ cacheKey(req'.config) \notin DOMAIN decimalsCache)
             => /\ decRead'.st = "pending"
                /\ obs'.rpcReads >= 1]_vars

\* A decimals read has just failed during a build; the cache has no entry
\* for the key and nothing was written.
C38_Witness ==
    /\ pc = "build"
    /\ decRead.st = "fail"
    /\ decRead.msg = "Failed to fetch decimals for token"
    /\ cacheKey(req.config) \notin DOMAIN decimalsCache
    /\ obs.cacheWrites = 0

\* A request for a key an earlier request ended on without caching its
\* decimals: the read is issued again.
LaterRequestReadsAgain ==
    /\ pc = "build"
    /\ errAnn = ""
    /\ cacheKey(req.config) \in orphanMeta
    /\ cacheKey(req.config) \notin DOMAIN decimalsCache
    /\ decRead.st = "pending"
    /\ obs.rpcReads >= 1

\* C39: on every exit of settlePayment (result, rejection, unreadable body,
\* transport failure, timeout) the timer is no longer armed: it is cleared,
\* or it has fired and that exit is the timeout; a timer is armed only
\* while the request to the facilitator is outstanding, and it fires only
\* then, so no timer is left to abort anything after completion.
C39_TimerNeverLeftArmed ==
    /\ [](settle.outcome \notin {"none", "pending"} =>
             /\ settle.timer \in {"cleared", "fired"}
             /\ settle.timer = "fired" <=> settle.outcome = "timeout")
    /\ [](settle.timer = "armed" =>
             /\ pc = "settling"
             /\ settle.outcome = "pending"
             /\ settle.inflight)
    /\ [][(settle'.timer = "fired" /\ settle.timer # "fired") =>
             /\ settle.timer = "armed"
             /\ pc = "settling"
             /\ settle.outcome = "pending"]_vars

\* The facilitator rejected the payment; the timer is cleared while the
\* adapter rebuilds the requirements.
C39_Witness ==
    /\ settle.outcome = "rejected"
    /\ settle.timer = "cleared"
    /\ ~settle.inflight
    /\ pc = "build"

\* The other exits with the timer cleared: a result, a failed connection.
ResultExitTimerCleared ==
    /\ settle.outcome = "ok" /\ settle.timer = "cleared" /\ pc = "done"

TransportExitTimerCleared ==
    /\ settle.outcome = "transport" /\ settle.timer = "cleared"
    /\ pc = "done"

====
